---- MODULE Spec2Model ----
(***************************************************************************)
(* Model of the meeting-stt backend: the /submit endpoint of               *)
(* backend/main.py (request preparation, the callback that mirrors         *)
(* recognition events into the Transcription, the queue between the        *)
(* backend worker threads and the streaming generator) and the             *)
(* HistoryStorage class of backend/utils/history_storage.py in its two     *)
(* modes (in-memory dictionaries, Azure table).                            *)
(***************************************************************************)
EXTENDS Integers, Sequences, FiniteSets, TLC

(***************************************************************************)
(* Bounds of the model.                                                    *)
(***************************************************************************)
MaxEvents == 3      \* callback invocations per /submit request
MaxOps == 4         \* direct calls of store operations besides those of /submit
MaxPre == 1         \* of which next to a /submit request
MaxHist == 3        \* uuids available for History records
MaxTrans == 3       \* uuids available for Transcription records
MaxObjs == 3        \* Transcription objects constructed
MaxSessions == 2    \* live sessions (recognizers) constructed
MaxResults == 2     \* results the recognizers deliver
MaxPushes == 1      \* calls of process_audio_chunk_direct per request task
MaxCleanups == 2    \* calls of cleanup_session
MaxTime == 31       \* the clock, in seconds
MaxChunks == 20     \* audio chunks a connection receives
MaxDrains == 3      \* calls of get_results
MaxLimit == 2       \* the limit of get_all_history

(***************************************************************************)
(* Values.                                                                 *)
(***************************************************************************)
NoId == 0                        \* Transcription.id not assigned (None)
MainRow == -1                    \* RowKey "main" of the History metadata row
None == "none"                   \* a form field that was not supplied
Users == {"u1", "u2"}
Sessions == {"s1"}
ValidModels == {"llm", "whisper", "msft"}
Models == ValidModels \cup {"bogus", None}
EventTypes == {"transcribing", "transcribed", "transcript", "closing",
               "session_stopped", "error"}
HistIds == 1..MaxHist                     \* uuids, in the table's key order
TransIds == (MaxHist + 1)..(MaxHist + MaxTrans)
Objs == 1..MaxObjs
Threads == {1, 2}

VARIABLES
    use_azure_tables,     \* HistoryStorage.use_azure_tables
    memory_history,       \* HistoryStorage.memory_history, in insertion order
    memory_transcriptions,\* HistoryStorage.memory_transcriptions: id -> object
    table,                \* the entities of table TranscriptionHistory
    heap,                 \* the Transcription objects constructed so far
    pc,                   \* position of the /submit request and its generator
    req,                  \* the form fields of the /submit request
    blob_url,             \* whether the whisper upload produced a URL
    history_record,       \* id of submit's history_record, NoId when None
    transcription_record, \* object of submit's transcription_record, 0 when None
    worker,               \* per backend thread: position and event in hand
    q,                    \* queue.Queue() of event_stream
    yielded,              \* the frames the generator has yielded so far
    called,               \* events in the order callback was entered
    putlog,               \* events in the order of q.put
    ops,                  \* number of direct store calls so far
    local,                \* the objects that are local variables of /submit
    lastOp,               \* the last store operation and what it returned
    addedTo               \* pairs <<object, history id>>: the last successful add

VARIABLES
    upd                   \* per caller: its call of update_transcription on a table row

\* the store, and the /submit request with its bookkeeping
reqVars == <<pc, req, blob_url, history_record, transcription_record, worker,
             q, yielded, called, putlog, ops, local, lastOp, addedTo>>

baseVars == <<use_azure_tables, memory_history, memory_transcriptions, table, heap,
              reqVars>>

updVars == <<upd>>

VARIABLES
    env,                  \* transcription_live_direct imported; the credentials
    active_sessions,      \* _active_sessions: key -> session, 0 when absent
    sessions,             \* the session dicts constructed so far
    task,                 \* per request task: its process_audio_chunk_direct call
    cleanup,              \* the cleanup_session call
    now,                  \* time.time()
    delivered             \* number of results the recognizers have delivered

liveVars == <<env, active_sessions, sessions, task, cleanup, now, delivered>>

VARIABLES
    handler,              \* the transcription handler of a /ws/transcribe connection
    drain,                \* the get_results call in progress
    drained,              \* ids of the results returned by get_results so far
    appended              \* number of results appended to results_queue so far

wsVars == <<handler, drain, drained, appended>>

VARIABLES
    outcome,              \* the last store call made while the backend may fail
    twin,                 \* an in-memory and a table store given the same calls
    batch                 \* a /submit_batch request: generator, thread and queue

VARIABLES
    call,                 \* per caller: its add or toggle on the table, step by step
    app,                  \* app.state.history of main.py and what its helpers returned
    conn                  \* a /ws/transcribe connection: the position of its coroutine

lateVars == <<call, app, conn>>

extVars == <<outcome, twin, batch, lateVars>>

\* what the store operations and /submit leave alone
newVars == <<updVars, liveVars, wsVars, extVars>>

vars == <<baseVars, newVars>>

(***************************************************************************)
(* Sequences.                                                              *)
(***************************************************************************)
IsPrefix(s, t) == Len(s) <= Len(t) /\ \A i \in 1..Len(s) : s[i] = t[i]

RECURSIVE SortedIds(_)
\* a set of integer keys as the sequence in ascending key order
SortedIds(S) ==
    IF S = {} THEN <<>>
    ELSE LET m == CHOOSE x \in S : \A y \in S : x <= y
         IN  <<m>> \o SortedIds(S \ {m})

(***************************************************************************)
(* Transcript chunks and their JSON form in the table                      *)
(* (history_storage.py 201-211, 299-309 and 570-585).                      *)
(***************************************************************************)
ChunkToJson(c) == <<"event_type", c.event_type, "text", c.text>>

JsonToChunk(j) == [event_type |-> j[2], text |-> j[4]]

JsonDumps(chunks) == [i \in 1..Len(chunks) |-> ChunkToJson(chunks[i])]

JsonLoads(js) == [i \in 1..Len(js) |-> JsonToChunk(js[i])]

(***************************************************************************)
(* The store as a value: W.mh memory_history, W.mt memory_transcriptions,  *)
(* W.tbl the table, W.heap the Transcription objects.  Every operation     *)
(* returns the store after it, its return value and the number of store    *)
(* accesses (dictionary lookups, table requests) it made.                  *)
(***************************************************************************)
World == [mh |-> memory_history, mt |-> memory_transcriptions, tbl |-> table,
          heap |-> heap]

NoHistory == [id |-> NoId, user_id |-> None, session_id |-> None,
              visible |-> FALSE, timestamp |-> 0, transcriptions |-> <<>>]

HistoryEntity(hid, u, s) ==
    [PartitionKey |-> hid, RowKey |-> MainRow, entity_type |-> "history",
     user_id |-> u, session_id |-> s, visible |-> TRUE, transcription_count |-> 0,
     status |-> None, transcript_chunks |-> <<>>, timestamp |-> 0]

TranscriptionEntity(hid, tid, t) ==
    [PartitionKey |-> hid, RowKey |-> tid, entity_type |-> "transcription",
     user_id |-> None, session_id |-> None, visible |-> FALSE,
     transcription_count |-> 0,
     status |-> t.status, transcript_chunks |-> JsonDumps(t.transcript_chunks),
     timestamp |-> t.timestamp]

\* table_client.get_entity: the entity with that key, as a set of 0 or 1 entity
GetEntity(tbl, pk, rk) == {e \in tbl : e.PartitionKey = pk /\ e.RowKey = rk}

\* table_client.update_entity without etag: replaces the entity of that key
PutEntity(tbl, e) ==
    (tbl \ GetEntity(tbl, e.PartitionKey, e.RowKey)) \cup {e}

\* index of the History with that id in memory_history, 0 when absent
MemIndex(mh, hid) ==
    IF \E i \in 1..Len(mh) : mh[i].id = hid
    THEN CHOOSE i \in 1..Len(mh) : mh[i].id = hid
    ELSE 0

\* the ids in use: uuid4 never returns one of them again
UsedIds(w) ==
    {w.mh[i].id : i \in 1..Len(w.mh)} \cup {w.heap[o].id : o \in 1..Len(w.heap)}
    \cup {e.PartitionKey : e \in w.tbl} \cup {e.RowKey : e \in w.tbl}

\* the values uuid4 may return for a new key of that pool.  Keys are only
\* compared for equality and ordered by the table, so the first key of a
\* pool is taken to be its middle element; a later one is any unused element,
\* smaller or larger than those in use.
FreshIds(pool, w) ==
    IF pool \cap UsedIds(w) = {}
    THEN {CHOOSE m \in pool : Cardinality({x \in pool : x < m}) = (Cardinality(pool) - 1) \div 2}
    ELSE pool \ UsedIds(w)

\* the Transcription objects a table query builds from the rows of a partition
get_transcriptions_for_history(tbl, hid) ==
    LET rows == {e \in tbl : e.PartitionKey = hid /\ e.entity_type = "transcription"}
        keys == SortedIds({e.RowKey : e \in rows})
    IN  [i \in 1..Len(keys) |->
            LET e == CHOOSE r \in rows : r.RowKey = keys[i]
            IN  [id |-> e.RowKey, status |-> e.status,
                 transcript_chunks |-> JsonLoads(e.transcript_chunks),
                 timestamp |-> e.timestamp]]

\* a History of memory_history with its Transcription objects read out
MemView(w, h) ==
    [id |-> h.id, user_id |-> h.user_id, session_id |-> h.session_id,
     visible |-> h.visible, timestamp |-> h.timestamp,
     transcriptions |-> [i \in 1..Len(h.transcriptions) |-> w.heap[h.transcriptions[i]]]]

\* a History built from its metadata entity and the rows of its partition
TableView(w, e) ==
    [id |-> e.PartitionKey, user_id |-> e.user_id, session_id |-> e.session_id,
     visible |-> e.visible, timestamp |-> e.timestamp,
     transcriptions |-> get_transcriptions_for_history(w.tbl, e.PartitionKey)]

get_history_by_id(azure, w, hid) ==
    IF ~azure
    THEN IF MemIndex(w.mh, hid) = 0 THEN NoHistory
         ELSE MemView(w, w.mh[MemIndex(w.mh, hid)])
    ELSE IF GetEntity(w.tbl, hid, MainRow) = {} THEN NoHistory
         ELSE TableView(w, CHOOSE e \in GetEntity(w.tbl, hid, MainRow) : TRUE)

RECURSIVE FilterSession(_, _, _)
\* the Histories of the sequence hs with that session_id (and visible)
FilterSession(hs, s, visible_only) ==
    IF hs = <<>> THEN <<>>
    ELSE LET r == FilterSession(SubSeq(hs, 1, Len(hs) - 1), s, visible_only)
             h == hs[Len(hs)]
         IN  IF h.session_id = s /\ (~visible_only \/ h.visible)
             THEN Append(r, h) ELSE r

get_session_history(azure, w, s, visible_only) ==
    IF ~azure
    THEN FilterSession([i \in 1..Len(w.mh) |-> MemView(w, w.mh[i])], s, visible_only)
    ELSE LET metas == {e \in w.tbl : e.entity_type = "history"}
             keys == SortedIds({e.PartitionKey : e \in metas})
             all == [i \in 1..Len(keys) |->
                        TableView(w, CHOOSE e \in metas : e.PartitionKey = keys[i])]
         IN  FilterSession(all, s, visible_only)

\* the first n elements of a sequence: seq[:n]
Truncate(seq, n) == SubSeq(seq, 1, IF n < Len(seq) THEN n ELSE Len(seq))

RECURSIVE FilterVisible(_, _)
\* [h for h in histories if h.visible] when visible_only
FilterVisible(hs, visible_only) ==
    IF hs = <<>> THEN <<>>
    ELSE LET r == FilterVisible(SubSeq(hs, 1, Len(hs) - 1), visible_only)
             h == hs[Len(hs)]
         IN  IF ~visible_only \/ h.visible THEN Append(r, h) ELSE r

RECURSIVE NewestFirst(_)
\* entities.sort(key=timestamp, reverse=True) on the entities of a query:
\* the sort is stable, entities of one timestamp stay in key order
NewestFirst(es) ==
    IF es = {} THEN <<>>
    ELSE LET m == CHOOSE x \in es : \A y \in es :
                     \/ x.timestamp > y.timestamp
                     \/ x.timestamp = y.timestamp /\ x.PartitionKey <= y.PartitionKey
         IN  <<m>> \o NewestFirst(es \ {m})

get_all_history(azure, w, visible_only, limit) ==
    IF ~azure
    THEN Truncate(FilterVisible([i \in 1..Len(w.mh) |-> MemView(w, w.mh[i])],
                                visible_only), limit)
    ELSE LET metas == {e \in w.tbl : e.entity_type = "history"
                                     /\ (~visible_only \/ e.visible)}
             entities == Truncate(NewestFirst(metas), limit)
         IN  [i \in 1..Len(entities) |->
                 [id |-> entities[i].PartitionKey, user_id |-> entities[i].user_id,
                  session_id |-> entities[i].session_id,
                  visible |-> entities[i].visible,
                  timestamp |-> entities[i].timestamp, transcriptions |-> <<>>]]

\* datetime.now() at the creation of a History: later than that of every
\* History created before
CreationTime(azure, w) ==
    IF ~azure THEN Len(w.mh) + 1
    ELSE Cardinality({e \in w.tbl : e.entity_type = "history"}) + 1

add_history_record(azure, w, hid, u, s) ==
    IF ~azure
    THEN [w |-> [w EXCEPT !.mh = Append(@, [id |-> hid, user_id |-> u,
                     session_id |-> s, visible |-> TRUE,
                     timestamp |-> CreationTime(azure, w),
                     transcriptions |-> <<>>])],
          ret |-> hid, accesses |-> 1]
    ELSE [w |-> [w EXCEPT !.tbl = @ \cup
                    {[HistoryEntity(hid, u, s) EXCEPT
                         !.timestamp = CreationTime(azure, w)]}],
          ret |-> hid, accesses |-> 1]

\* newid is the uuid4 the call would generate
\* an add that does not look for the History
add_without_history(azure, w, hid, o, newid) ==
    [w |-> [w EXCEPT !.heap[o].id = newid], ret |-> TRUE, accesses |-> 0]

add_transcription_to_history(azure, w, hid, o, newid) ==
    IF ~azure
    THEN LET i == MemIndex(w.mh, hid)
             tid == IF w.heap[o].id = NoId THEN newid ELSE w.heap[o].id
         IN  IF i # 0
             THEN [w |-> [w EXCEPT !.heap[o].id = tid,
                                   !.mh[i].transcriptions = Append(@, o),
                                   !.mt = [k \in (DOMAIN @) \cup {tid} |->
                                              IF k = tid THEN o ELSE @[k]]],
                   ret |-> TRUE, accesses |-> 3]
             ELSE [w |-> w, ret |-> FALSE, accesses |-> 1]
    ELSE IF get_history_by_id(azure, w, hid).id = NoId
         THEN [w |-> w, ret |-> FALSE, accesses |-> 1]
         ELSE LET t == [w.heap[o] EXCEPT !.id = newid]
                  created == w.tbl \cup {TranscriptionEntity(hid, newid, t)}
                  main == CHOOSE e \in GetEntity(created, hid, MainRow) : TRUE
              IN  [w |-> [w EXCEPT !.heap[o] = t,
                                   !.tbl = PutEntity(created,
                                       [main EXCEPT !.transcription_count = @ + 1])],
                   ret |-> TRUE, accesses |-> 5]

RECURSIVE FirstWithId(_, _, _)
\* the first object of the sequence ts whose id is tid, 0 when there is none
FirstWithId(hp, ts, tid) ==
    IF ts = <<>> THEN 0
    ELSE IF hp[Head(ts)].id = tid THEN Head(ts)
    ELSE FirstWithId(hp, Tail(ts), tid)

\* an update that writes the status but forgets the chunks
update_status_only(w, hid, o) ==
    LET found == GetEntity(w.tbl, hid, w.heap[o].id)
    IN  IF found = {}
        THEN [w |-> w, ret |-> FALSE, accesses |-> 1]
        ELSE LET e == CHOOSE x \in found : TRUE
             IN  [w |-> [w EXCEPT !.tbl = PutEntity(@,
                            [e EXCEPT !.status = w.heap[o].status])],
                  ret |-> TRUE, accesses |-> 2]

\* an update that writes the status only
UpdatedStatusOnly(e, t) == [e EXCEPT !.status = t.status]

\* the entity read by get_entity with the three fields of Transcription t
\* written over it (history_storage.py 298-310)
UpdatedEntity(e, t) ==
    [e EXCEPT !.status = t.status,
              !.transcript_chunks = JsonDumps(t.transcript_chunks),
              !.timestamp = t.timestamp]

update_transcription_with_retry(w, hid, o) ==
    LET found == GetEntity(w.tbl, hid, w.heap[o].id)
    IN  IF found = {}
        THEN [w |-> w, ret |-> FALSE, accesses |-> 1]
        ELSE LET e == CHOOSE x \in found : TRUE
             IN  [w |-> [w EXCEPT !.tbl = PutEntity(@,
                            UpdatedEntity(e, w.heap[o]))],
                  ret |-> TRUE, accesses |-> 2]

\* an update that goes to the store without validating transcription.id
update_transcription_unchecked(azure, w, hid, o) ==
    IF ~azure
    THEN LET i == MemIndex(w.mh, hid)
             t == IF i = 0 THEN 0
                  ELSE FirstWithId(w.heap, w.mh[i].transcriptions, w.heap[o].id)
         IN  IF t # 0
             THEN [w |-> [w EXCEPT !.heap[t].status = w.heap[o].status,
                                   !.heap[t].transcript_chunks =
                                       w.heap[o].transcript_chunks,
                                   !.heap[t].timestamp = w.heap[o].timestamp],
                   ret |-> TRUE, accesses |-> 2]
             ELSE [w |-> w, ret |-> FALSE, accesses |-> 1]
    ELSE update_transcription_with_retry(w, hid, o)

update_transcription(azure, w, hid, o) ==
    IF w.heap[o].id = NoId
    THEN [w |-> w, ret |-> FALSE, accesses |-> 0]
    ELSE IF ~azure
    THEN LET i == MemIndex(w.mh, hid)
             t == IF i = 0 THEN 0
                  ELSE FirstWithId(w.heap, w.mh[i].transcriptions, w.heap[o].id)
         IN  IF t # 0
             THEN [w |-> [w EXCEPT !.heap[t].status = w.heap[o].status,
                                   !.heap[t].transcript_chunks =
                                       w.heap[o].transcript_chunks,
                                   !.heap[t].timestamp = w.heap[o].timestamp],
                   ret |-> TRUE, accesses |-> 2]
             ELSE [w |-> w, ret |-> FALSE, accesses |-> 1]
    ELSE update_transcription_with_retry(w, hid, o)

\* a toggle that reports success without looking at the store
toggle_without_lookup(azure, w, hid, v) == [w |-> w, ret |-> TRUE, accesses |-> 0]

toggle_history_visibility(azure, w, hid, v) ==
    IF ~azure
    THEN LET i == MemIndex(w.mh, hid)
         IN  IF i # 0
             THEN [w |-> [w EXCEPT !.mh[i].visible = v], ret |-> TRUE, accesses |-> 2]
             ELSE [w |-> w, ret |-> FALSE, accesses |-> 1]
    ELSE IF GetEntity(w.tbl, hid, MainRow) = {}
         THEN [w |-> w, ret |-> FALSE, accesses |-> 1]
         ELSE LET e == CHOOSE x \in GetEntity(w.tbl, hid, MainRow) : TRUE
              IN  [w |-> [w EXCEPT !.tbl = PutEntity(@, [e EXCEPT !.visible = v])],
                   ret |-> TRUE, accesses |-> 2]

RECURSIVE FilterUser(_, _, _)
\* the Histories of the sequence hs with that user_id (and visible)
FilterUser(hs, u, visible_only) ==
    IF hs = <<>> THEN <<>>
    ELSE LET r == FilterUser(SubSeq(hs, 1, Len(hs) - 1), u, visible_only)
             h == hs[Len(hs)]
         IN  IF h.user_id = u /\ (~visible_only \/ h.visible)
             THEN Append(r, h) ELSE r

get_user_history(azure, w, u, visible_only) ==
    IF ~azure
    THEN FilterUser([i \in 1..Len(w.mh) |-> MemView(w, w.mh[i])], u, visible_only)
    ELSE LET metas == {e \in w.tbl : e.entity_type = "history"}
             keys == SortedIds({e.PartitionKey : e \in metas})
             all == [i \in 1..Len(keys) |->
                        TableView(w, CHOOSE e \in metas : e.PartitionKey = keys[i])]
         IN  FilterUser(all, u, visible_only)

(***************************************************************************)
(* The operations when a request to the table fails.  fail_at is the       *)
(* number of the request of the call that raises (a 5xx answer or a broken *)
(* connection), 0 when none does; the in-memory mode makes no request.     *)
(* answer is what the caller gets: "raised" when the exception leaves the  *)
(* operation, else its return value, "partial" for Histories returned      *)
(* without the Transcriptions the table holds for them.                    *)
(***************************************************************************)
\* create_entity fails: logged and raised again (history_storage.py 142-144)
add_history_record_failing(azure, w, hid, u, s, fail_at) ==
    IF azure /\ fail_at = 1
    THEN [w |-> w, answer |-> "raised"]
    ELSE [w |-> add_history_record(azure, w, hid, u, s).w, answer |-> "value"]

\* requests: get_entity and query of get_history_by_id, create_entity,
\* get_entity and update_entity of the metadata row
add_transcription_failing(azure, w, hid, o, newid, fail_at) ==
    LET r == add_transcription_to_history(azure, w, hid, o, newid)
        normal == [w |-> r.w, answer |-> IF r.ret THEN "true" ELSE "false"]
        created == [w EXCEPT !.heap[o].id = newid,
                             !.tbl = @ \cup {TranscriptionEntity(hid, newid,
                                                [w.heap[o] EXCEPT !.id = newid])}]
    IN  IF ~azure \/ fail_at \in {0, 2} \/ ~r.ret THEN normal
        ELSE IF fail_at = 1 THEN [w |-> w, answer |-> "false"]
        ELSE IF fail_at = 3
        THEN [w |-> [w EXCEPT !.heap[o].id = newid], answer |-> "false"]
        ELSE [w |-> created, answer |-> "false"]

\* requests: get_entity and update_entity of the first attempt.  http: the
\* failure is an HttpResponseError, which ends the call; any other exception
\* is followed by a sleep and a second attempt, whose requests succeed
update_transcription_failing(azure, w, hid, o, fail_at, http) ==
    LET r == update_transcription(azure, w, hid, o)
    IN  IF azure /\ w.heap[o].id # NoId /\ fail_at \in {1, 2} /\ http
        THEN [w |-> w, answer |-> "false"]
        ELSE [w |-> r.w, answer |-> IF r.ret THEN "true" ELSE "false"]

\* requests: get_entity and update_entity of the metadata row
toggle_history_visibility_failing(azure, w, hid, v, fail_at) ==
    LET r == toggle_history_visibility(azure, w, hid, v)
    IN  IF azure /\ fail_at \in {1, 2}
        THEN [w |-> w, answer |-> "false"]
        ELSE [w |-> r.w, answer |-> IF r.ret THEN "true" ELSE "false"]

\* requests: get_entity of the metadata row, query of the partition's rows;
\* a failing query is caught in _get_transcriptions_for_history (605-607)
get_history_by_id_failing(azure, w, hid, fail_at) ==
    LET h == get_history_by_id(azure, w, hid)
    IN  IF azure /\ fail_at = 1 THEN "none"
        ELSE IF h = NoHistory THEN "none"
        ELSE IF azure /\ fail_at = 2 /\ h.transcriptions # <<>> THEN "partial"
        ELSE "value"

\* one request: the query of the metadata rows
get_all_history_failing(azure, w, visible_only, limit, fail_at) ==
    IF azure /\ fail_at = 1 THEN "empty"
    ELSE IF get_all_history(azure, w, visible_only, limit) = <<>> THEN "empty"
    ELSE "value"

\* requests: the query of the metadata rows, then for the k-th History
\* found the query of its partition's rows as request k + 1
ListAnswer(azure, hs, fail_at) ==
    IF azure /\ fail_at = 1 THEN "empty"
    ELSE IF hs = <<>> THEN "empty"
    ELSE IF azure /\ fail_at - 1 \in 1..Len(hs)
            /\ hs[fail_at - 1].transcriptions # <<>> THEN "partial"
    ELSE "value"

get_user_history_failing(azure, w, u, visible_only, fail_at) ==
    ListAnswer(azure, get_user_history(azure, w, u, visible_only), fail_at)

get_session_history_failing(azure, w, s, visible_only, fail_at) ==
    ListAnswer(azure, get_session_history(azure, w, s, visible_only), fail_at)

(***************************************************************************)
(* Recognition events, the callback of /submit and the frames of the       *)
(* event stream.                                                           *)
(***************************************************************************)
NoEvent == [event_type |-> None, text |-> 0]

StreamEnd == {"closing", "session_stopped"}

Terminal == {"closing", "session_stopped", "error"}

\* Transcription(..., status="pending"): a new object without id or chunks
NewTranscription == [id |-> NoId, status |-> "pending", transcript_chunks |-> <<>>,
                     timestamp |-> 0]

\* the callers of update_transcription that run at the same time
Callers == {1, 2}

\* a caller that has not called yet.  attempt is the loop variable; stale:
\* the row was replaced since this call read it; writes, conflicts, faults
\* count its writes, its writes over a replaced row, and its failed requests
IdleCall ==
    [pc |-> "idle", history_id |-> NoId, t |-> NewTranscription, attempt |-> 0,
     entity |-> TranscriptionEntity(NoId, NoId, NewTranscription), ret |-> FALSE,
     sleeps |-> <<>>, stale |-> FALSE, writes |-> 0, conflicts |-> 0, faults |-> 0]

\* a callback whose closing branch sets completed without looking at status
ApplyEventUnguarded(t, e) ==
    CASE e.event_type = "transcribed" ->
            [t EXCEPT !.transcript_chunks =
                Append(@, [event_type |-> e.event_type, text |-> e.text])]
      [] e.event_type = "transcript" ->
            [t EXCEPT !.transcript_chunks =
                          Append(@, [event_type |-> "transcribed", text |-> e.text]),
                      !.status = "completed"]
      [] e.event_type \in {"closing", "session_stopped"} ->
            [t EXCEPT !.status = "completed"]
      [] e.event_type = "error" -> [t EXCEPT !.status = "failed"]
      [] OTHER -> t

\* a callback that puts a transcribed chunk in front of the others
ApplyEventPrepend(t, e) ==
    CASE e.event_type = "transcribed" ->
            [t EXCEPT !.transcript_chunks =
                <<[event_type |-> e.event_type, text |-> e.text]>> \o @]
      [] e.event_type = "transcript" ->
            [t EXCEPT !.transcript_chunks =
                          Append(@, [event_type |-> "transcribed", text |-> e.text]),
                      !.status = "completed"]
      [] e.event_type \in {"closing", "session_stopped"} ->
            IF t.status = "pending" THEN [t EXCEPT !.status = "completed"] ELSE t
      [] e.event_type = "error" -> [t EXCEPT !.status = "failed"]
      [] OTHER -> t

\* what callback does to transcription_record t on event e (main.py 449-482)
\* a callback whose update of the record has not happened when it enqueues
ApplyEventLate(t, e) == t

ApplyEvent(t, e) ==
    CASE e.event_type = "transcribed" ->
            [t EXCEPT !.transcript_chunks =
                Append(@, [event_type |-> e.event_type, text |-> e.text])]
      [] e.event_type = "transcript" ->
            [t EXCEPT !.transcript_chunks =
                          Append(@, [event_type |-> "transcribed", text |-> e.text]),
                      !.status = "completed"]
      [] e.event_type \in {"closing", "session_stopped"} ->
            IF t.status = "pending" THEN [t EXCEPT !.status = "completed"] ELSE t
      [] e.event_type = "error" -> [t EXCEPT !.status = "failed"]
      [] OTHER -> t

\* f"data: {json.dumps(event)}\n\n"
Frame(e) == <<"data: ", <<"event_type", e.event_type, "text", e.text>>, "\n\n">>

\* the event a client parses out of a frame
EventOfFrame(f) == [event_type |-> f[2][2], text |-> f[2][4]]

\* the backend threads that call callback: the advanced (multi-channel) LLM
\* entry point recognises the two channels at the same time
NumThreads(m, channels) == IF m = "llm" /\ channels = 2 THEN 2 ELSE 1

Started == {t \in Threads : worker[t].pc # "unstarted"}

AllTerminated == \A t \in Started : worker[t].pc \in {"done", "crashed"}

Op(name, hid, o, idb, r) ==
    [op |-> name, history_id |-> hid, obj |-> o, id_before |-> idb,
     result |-> r.ret, accesses |-> r.accesses, seq |-> lastOp.seq + 1]

\* addedTo after a call of add_transcription_to_history(hid, o) returned ret
Added(hid, o, ret) ==
    IF ret THEN {a \in addedTo : a[1] # o} \cup {<<o, hid>>} ELSE addedTo

SetWorld(w) ==
    /\ memory_history' = w.mh
    /\ memory_transcriptions' = w.mt
    /\ table' = w.tbl
    /\ heap' = w.heap

(***************************************************************************)
(* POST /submit up to the return of the StreamingResponse                  *)
(* (main.py 305-440 and 531-535).                                          *)
(***************************************************************************)
Submit(m, u, s, channels, filetype, upload_ok) ==
    /\ pc = "idle"
    /\ req' = [model |-> m, user_id |-> u, session_id |-> s,
               channels |-> IF m = "llm" THEN channels ELSE 1]
    /\ blob_url' = (m = "whisper" /\ upload_ok)
    /\ worker' = [t \in Threads |-> [pc |-> "unstarted", ev |-> NoEvent]]
    /\ q' = <<>> /\ yielded' = <<>> /\ called' = <<>> /\ putlog' = <<>>
    /\ UNCHANGED <<newVars, use_azure_tables, ops>>
    /\ IF filetype \notin {"mp3", "wav"}
       THEN \* HTTPException(400), turned into a 500 by the handler
            /\ pc' = "raised"
            /\ history_record' = NoId /\ transcription_record' = 0
            /\ UNCHANGED <<memory_history, memory_transcriptions, table, heap,
                           local, lastOp, addedTo>>
       ELSE IF u = None \/ s = None
       THEN /\ pc' = "prepared"
            /\ history_record' = NoId /\ transcription_record' = 0
            /\ UNCHANGED <<memory_history, memory_transcriptions, table, heap,
                           local, lastOp, addedTo>>
       ELSE LET existing == get_session_history(use_azure_tables, World, s, FALSE)
                o == Len(heap) + 1
            IN  /\ o <= MaxObjs
                /\ \E hid \in IF existing # <<>> THEN {NoId}
                              ELSE FreshIds(HistIds, World) :
                   \E tid \in FreshIds(TransIds, World) :
                      LET w1 == IF existing # <<>> THEN World
                                ELSE add_history_record(use_azure_tables, World,
                                                        hid, u, s).w
                          h == IF existing # <<>> THEN existing[Len(existing)].id
                               ELSE hid
                          w2 == [w1 EXCEPT !.heap = Append(@, NewTranscription)]
                          r == add_transcription_to_history(use_azure_tables, w2,
                                                            h, o, tid)
                      IN  /\ SetWorld(r.w)
                          /\ history_record' = h
                          /\ transcription_record' = o
                          /\ local' = local \cup {o}
                          /\ lastOp' = Op("add", h, o, NoId, r)
                          /\ addedTo' = Added(h, o, r.ret)
                          /\ pc' = "prepared"

(***************************************************************************)
(* event_stream up to t.start() (main.py 442-511).                         *)
(***************************************************************************)
\* a dispatch that starts the thread before it looks at the model
StartThreadsUnchecked(m, channels, url) ==
    [t \in Threads |->
        [pc |-> IF t <= NumThreads(m, channels) THEN "running" ELSE "unstarted",
         ev |-> NoEvent]]

\* a dispatch that runs whisper on the local file when there is no URL
StartThreadsLocalFile(m, channels, url) ==
    IF m \in {"llm", "msft", "whisper"}
    THEN [t \in Threads |->
            [pc |-> IF t <= NumThreads(m, channels) THEN "running" ELSE "unstarted",
             ev |-> NoEvent]]
    ELSE [t \in Threads |-> [pc |-> "unstarted", ev |-> NoEvent]]

StartThreads(m, channels, url) ==
    IF m = "llm" \/ m = "msft" \/ (m = "whisper" /\ url)
    THEN [t \in Threads |->
            [pc |-> IF t <= NumThreads(m, channels) THEN "running" ELSE "unstarted",
             ev |-> NoEvent]]
    ELSE [t \in Threads |-> [pc |-> "unstarted", ev |-> NoEvent]]

Dispatch ==
    /\ pc = "prepared"
    /\ worker' = StartThreads(req.model, req.channels, blob_url)
    /\ pc' = IF \E t \in Threads : worker'[t].pc = "running" THEN "waiting"
             ELSE "raised"
    /\ UNCHANGED <<newVars, use_azure_tables, memory_history, memory_transcriptions, table,
                   heap, req, blob_url, history_record, transcription_record,
                   q, yielded, called, putlog, ops, local, lastOp, addedTo>>

(***************************************************************************)
(* callback(event_dict), called by backend thread t: first the update of   *)
(* transcription_record, then q.put (main.py 446-485).                     *)
(***************************************************************************)
CallbackUpdate(t, ty) ==
    /\ worker[t].pc = "running"
    /\ Len(called) < MaxEvents
    /\ LET e == [event_type |-> ty, text |-> Len(called) + 1]
       IN  /\ called' = Append(called, e)
           /\ worker' = [worker EXCEPT ![t] = [pc |-> "put", ev |-> e]]
           /\ heap' = IF transcription_record # 0
                      THEN [heap EXCEPT ![transcription_record] = ApplyEvent(@, e)]
                      ELSE heap
    /\ UNCHANGED <<newVars, use_azure_tables, memory_history, memory_transcriptions, table,
                   pc, req, blob_url, history_record, transcription_record,
                   q, yielded, putlog, ops, local, lastOp, addedTo>>

\* a put on a queue of size one, which waits while the queue is full
CallbackPutBounded(t) ==
    /\ worker[t].pc = "put"
    /\ Len(q) < 1
    /\ q' = Append(q, worker[t].ev)
    /\ putlog' = Append(putlog, worker[t].ev)
    /\ worker' = [worker EXCEPT ![t] = [pc |-> "running", ev |-> NoEvent]]
    /\ UNCHANGED <<newVars, use_azure_tables, memory_history, memory_transcriptions, table,
                   heap, pc, req, blob_url, history_record, transcription_record,
                   yielded, called, ops, local, lastOp, addedTo>>

CallbackPut(t) ==
    /\ worker[t].pc = "put"
    /\ q' = Append(q, worker[t].ev)
    /\ putlog' = Append(putlog, worker[t].ev)
    /\ worker' = [worker EXCEPT ![t] = [pc |-> "running", ev |-> NoEvent]]
    /\ UNCHANGED <<newVars, use_azure_tables, memory_history, memory_transcriptions, table,
                   heap, pc, req, blob_url, history_record, transcription_record,
                   yielded, called, ops, local, lastOp, addedTo>>

\* the client goes away while the generator waits in q.get(): nobody reads
\* the queue any more
Disconnect ==
    /\ pc = "waiting"
    /\ pc' = "disconnected"
    /\ UNCHANGED <<newVars, use_azure_tables, memory_history, memory_transcriptions, table,
                   heap, req, blob_url, history_record, transcription_record,
                   worker, q, yielded, called, putlog, ops, local, lastOp, addedTo>>

\* the thread's target returns
WorkerReturn(t) ==
    /\ worker[t].pc = "running"
    /\ worker' = [worker EXCEPT ![t].pc = "done"]
    /\ UNCHANGED <<newVars, use_azure_tables, memory_history, memory_transcriptions, table,
                   heap, pc, req, blob_url, history_record, transcription_record,
                   q, yielded, called, putlog, ops, local, lastOp, addedTo>>

\* the thread's target raises: nothing in event_stream catches it
WorkerRaise(t) ==
    /\ worker[t].pc = "running"
    /\ worker' = [worker EXCEPT ![t].pc = "crashed"]
    /\ UNCHANGED <<newVars, use_azure_tables, memory_history, memory_transcriptions, table,
                   heap, pc, req, blob_url, history_record, transcription_record,
                   q, yielded, called, putlog, ops, local, lastOp, addedTo>>

(***************************************************************************)
(* The loop of event_stream: q.get(), yield, break (main.py 513-520).      *)
(***************************************************************************)
NextPc(e) == IF e.event_type \in {"closing", "session_stopped"} THEN "joining"
             ELSE "waiting"

\* a loop that takes the newest event of the queue instead of the oldest
ConsumeNewest ==
    /\ pc = "waiting"
    /\ q # <<>>
    /\ yielded' = Append(yielded, Frame(q[Len(q)]))
    /\ q' = SubSeq(q, 1, Len(q) - 1)
    /\ pc' = NextPc(q[Len(q)])
    /\ UNCHANGED <<newVars, use_azure_tables, memory_history, memory_transcriptions, table,
                   heap, req, blob_url, history_record, transcription_record,
                   worker, called, putlog, ops, local, lastOp, addedTo>>

Consume ==
    /\ pc = "waiting"
    /\ q # <<>>
    /\ yielded' = Append(yielded, Frame(Head(q)))
    /\ q' = Tail(q)
    /\ pc' = NextPc(Head(q))
    /\ UNCHANGED <<newVars, use_azure_tables, memory_history, memory_transcriptions, table,
                   heap, req, blob_url, history_record, transcription_record,
                   worker, called, putlog, ops, local, lastOp, addedTo>>

(***************************************************************************)
(* t.join() and the update of the history (main.py 521-529).               *)
(***************************************************************************)
\* an update of the history that does not wait for the worker thread
PersistWithoutJoin ==
    /\ pc = "joining"
    /\ pc' = "done"
    /\ IF history_record # NoId /\ transcription_record # 0
       THEN LET r == update_transcription(use_azure_tables, World, history_record,
                                          transcription_record)
            IN  /\ SetWorld(r.w)
                /\ lastOp' = Op("update", history_record, transcription_record,
                                heap[transcription_record].id, r)
       ELSE UNCHANGED <<memory_history, memory_transcriptions, table, heap, lastOp>>
    /\ UNCHANGED <<newVars, use_azure_tables, req, blob_url, history_record,
                   transcription_record, worker, q, yielded, called, putlog,
                   ops, local, addedTo>>

JoinAndPersist ==
    /\ pc = "joining"
    /\ AllTerminated
    /\ pc' = "done"
    /\ IF history_record # NoId /\ transcription_record # 0
       THEN LET r == update_transcription(use_azure_tables, World, history_record,
                                          transcription_record)
            IN  /\ SetWorld(r.w)
                /\ lastOp' = Op("update", history_record, transcription_record,
                                heap[transcription_record].id, r)
       ELSE UNCHANGED <<memory_history, memory_transcriptions, table, heap, lastOp>>
    /\ UNCHANGED <<newVars, use_azure_tables, req, blob_url, history_record,
                   transcription_record, worker, q, yielded, called, putlog,
                   ops, local, addedTo>>

(***************************************************************************)
(* Store operations called from outside /submit: POST /history/create,     *)
(* PUT /history/{id}/visibility, and direct calls of                       *)
(* add_transcription_to_history and update_transcription on a              *)
(* Transcription the caller holds (a new one when o is not yet in heap).   *)
(***************************************************************************)
CallerObjs == (1..(Len(heap) + 1)) \ local

WithObj(o) == IF o > Len(heap) THEN [World EXCEPT !.heap = Append(@, NewTranscription)]
              ELSE World

CreateHistory(u, s) ==
    /\ ops < MaxOps
    /\ ops' = ops + 1
    /\ \E hid \in FreshIds(HistIds, World) :
          LET r == add_history_record(use_azure_tables, World, hid, u, s)
          IN  /\ SetWorld(r.w)
              /\ lastOp' = Op("create", hid, 0, NoId, r)
    /\ UNCHANGED <<newVars, use_azure_tables, pc, req, blob_url, history_record,
                   transcription_record, worker, q, yielded, called, putlog,
                   local, addedTo>>

ToggleVisibility(hid, v) ==
    /\ ops < MaxOps
    /\ ops' = ops + 1
    /\ LET r == toggle_history_visibility(use_azure_tables, World, hid, v)
       IN  /\ SetWorld(r.w)
           /\ lastOp' = Op("toggle", hid, 0, NoId, r)
    /\ UNCHANGED <<newVars, use_azure_tables, pc, req, blob_url, history_record,
                   transcription_record, worker, q, yielded, called, putlog,
                   local, addedTo>>

StoreAdd(hid, o) ==
    /\ ops < MaxOps
    /\ o \in CallerObjs /\ o <= MaxObjs
    /\ ops' = ops + 1
    /\ \E tid \in FreshIds(TransIds, World) :
          LET r == add_transcription_to_history(use_azure_tables, WithObj(o), hid,
                                                o, tid)
          IN  /\ SetWorld(r.w)
              /\ lastOp' = Op("add", hid, o, WithObj(o).heap[o].id, r)
              /\ addedTo' = Added(hid, o, r.ret)
    /\ UNCHANGED <<newVars, use_azure_tables, pc, req, blob_url, history_record,
                   transcription_record, worker, q, yielded, called, putlog,
                   local>>

StoreUpdate(hid, o) ==
    /\ ops < MaxOps
    /\ o \in CallerObjs /\ o <= MaxObjs
    /\ ops' = ops + 1
    /\ LET r == update_transcription(use_azure_tables, WithObj(o), hid, o)
       IN  /\ SetWorld(r.w)
           /\ lastOp' = Op("update", hid, o, WithObj(o).heap[o].id, r)
    /\ UNCHANGED <<newVars, use_azure_tables, pc, req, blob_url, history_record,
                   transcription_record, worker, q, yielded, called, putlog,
                   local, addedTo>>

\* the caller changes the Transcription it holds the way callback does on an
\* event of type ty (main.py 449-482), between two store calls
MutateTranscription(o, ty) ==
    /\ ops < MaxOps
    /\ o \in CallerObjs /\ o <= Len(heap)
    /\ ops' = ops + 1
    /\ heap' = [heap EXCEPT ![o] =
                    ApplyEvent(@, [event_type |-> ty, text |-> Len(@.transcript_chunks) + 1])]
    /\ UNCHANGED <<newVars, use_azure_tables, memory_history, memory_transcriptions, table,
                   pc, req, blob_url, history_record, transcription_record, worker,
                   q, yielded, called, putlog, local, lastOp, addedTo>>

(***************************************************************************)
(* The same calls while the backend may fail, and the read operations.     *)
(***************************************************************************)
Outcome(name, fail_at, r) ==
    [op |-> name, fail_at |-> fail_at, raised |-> (r.answer = "raised"),
     answer |-> r.answer]

StoreFrame ==
    UNCHANGED <<updVars, liveVars, wsVars, twin, batch, lateVars, use_azure_tables, pc, req,
                blob_url,
                history_record, transcription_record, worker, q, yielded, called,
                putlog, local, lastOp, addedTo>>

CreateHistoryFailing(u, s, fail_at) ==
    /\ ops < MaxOps
    /\ ops' = ops + 1
    /\ \E hid \in FreshIds(HistIds, World) :
          LET r == add_history_record_failing(use_azure_tables, World, hid, u, s,
                                              fail_at)
          IN  SetWorld(r.w) /\ outcome' = Outcome("create", fail_at, r)
    /\ StoreFrame

StoreAddFailing(hid, o, fail_at) ==
    /\ ops < MaxOps
    /\ o \in CallerObjs /\ o <= MaxObjs
    /\ ops' = ops + 1
    /\ \E tid \in FreshIds(TransIds, World) :
          LET r == add_transcription_failing(use_azure_tables, WithObj(o), hid, o,
                                             tid, fail_at)
          IN  SetWorld(r.w) /\ outcome' = Outcome("add", fail_at, r)
    /\ StoreFrame

StoreUpdateFailing(hid, o, fail_at, http) ==
    /\ ops < MaxOps
    /\ o \in CallerObjs /\ o <= MaxObjs
    /\ ops' = ops + 1
    /\ LET r == update_transcription_failing(use_azure_tables, WithObj(o), hid, o,
                                             fail_at, http)
       IN  SetWorld(r.w) /\ outcome' = Outcome("update", fail_at, r)
    /\ StoreFrame

ToggleVisibilityFailing(hid, v, fail_at) ==
    /\ ops < MaxOps
    /\ ops' = ops + 1
    /\ LET r == toggle_history_visibility_failing(use_azure_tables, World, hid, v,
                                                  fail_at)
       IN  SetWorld(r.w) /\ outcome' = Outcome("toggle", fail_at, r)
    /\ StoreFrame

\* a read changes nothing in the store
ReadFrame ==
    /\ ops < MaxOps
    /\ ops' = ops + 1
    /\ UNCHANGED <<memory_history, memory_transcriptions, table, heap>>
    /\ StoreFrame

GetHistoryById(hid, fail_at) ==
    /\ outcome' = Outcome("get_history_by_id", fail_at,
          [answer |-> get_history_by_id_failing(use_azure_tables, World, hid, fail_at)])
    /\ ReadFrame

GetAllHistory(visible_only, limit, fail_at) ==
    /\ outcome' = Outcome("get_all_history", fail_at,
          [answer |-> get_all_history_failing(use_azure_tables, World, visible_only,
                                              limit, fail_at)])
    /\ ReadFrame

GetUserHistory(u, visible_only, fail_at) ==
    /\ outcome' = Outcome("get_user_history", fail_at,
          [answer |-> get_user_history_failing(use_azure_tables, World, u,
                                               visible_only, fail_at)])
    /\ ReadFrame

GetSessionHistory(s, visible_only, fail_at) ==
    /\ outcome' = Outcome("get_session_history", fail_at,
          [answer |-> get_session_history_failing(use_azure_tables, World, s,
                                                  visible_only, fail_at)])
    /\ ReadFrame

(***************************************************************************)
(* Two stores, one in each mode, that receive the same sequence of calls   *)
(* with the same arguments; uuid4 returns the same value in both.  Each    *)
(* store has its own Transcription objects, changed by the caller in the   *)
(* same way between the calls.                                             *)
(***************************************************************************)
EmptyWorld == [mh |-> <<>>, mt |-> <<>>, tbl |-> {}, heap |-> <<>>]

\* the ids in use in either store
TwinIds(pool) ==
    FreshIds(pool, [mh |-> twin.mem.mh, mt |-> twin.mem.mt, tbl |-> twin.tab.tbl,
                    heap |-> twin.mem.heap \o twin.tab.heap])

\* the caller's objects: those constructed so far, or a new one
TwinObj(w, o) == IF o > Len(w.heap) THEN [w EXCEPT !.heap = Append(@, NewTranscription)]
                 ELSE w

TwinFrame == UNCHANGED <<baseVars, updVars, liveVars, wsVars, outcome, batch, lateVars>>

TwinStep(rm, rt) ==
    twin' = [mem |-> rm.w, tab |-> rt.w, calls |-> twin.calls + 1,
             ret_mem |-> rm.ret, ret_tab |-> rt.ret]

TwinCreate(u, s) ==
    /\ twin.calls < MaxOps
    /\ \E hid \in TwinIds(HistIds) :
          TwinStep([add_history_record(FALSE, twin.mem, hid, u, s) EXCEPT !.ret = TRUE],
                   [add_history_record(TRUE, twin.tab, hid, u, s) EXCEPT !.ret = TRUE])
    /\ TwinFrame

TwinAdd(hid, o) ==
    /\ twin.calls < MaxOps
    /\ o <= Len(twin.mem.heap) + 1 /\ o <= MaxObjs
    /\ \E tid \in TwinIds(TransIds) :
          TwinStep(add_transcription_to_history(FALSE, TwinObj(twin.mem, o), hid, o, tid),
                   add_transcription_to_history(TRUE, TwinObj(twin.tab, o), hid, o, tid))
    /\ TwinFrame

TwinUpdate(hid, o) ==
    /\ twin.calls < MaxOps
    /\ o <= Len(twin.mem.heap) + 1 /\ o <= MaxObjs
    /\ TwinStep(update_transcription(FALSE, TwinObj(twin.mem, o), hid, o),
                update_transcription(TRUE, TwinObj(twin.tab, o), hid, o))
    /\ TwinFrame

TwinToggle(hid, v) ==
    /\ twin.calls < MaxOps
    /\ TwinStep(toggle_history_visibility(FALSE, twin.mem, hid, v),
                toggle_history_visibility(TRUE, twin.tab, hid, v))
    /\ TwinFrame

\* the caller changes its Transcription the way callback does (main.py 449-482)
TwinMutate(o, ty) ==
    /\ twin.calls < MaxOps
    /\ o <= Len(twin.mem.heap)
    /\ LET e == [event_type |-> ty, text |-> twin.calls + 1]
       IN  twin' = [twin EXCEPT !.calls = @ + 1,
                                !.mem.heap[o] = ApplyEvent(@, e),
                                !.tab.heap[o] = ApplyEvent(@, e)]
    /\ TwinFrame

(***************************************************************************)
(* POST /submit_batch (main.py 538-607): the generator event_stream, the   *)
(* thread run_batch that calls the batch driver, and the driver's calls of *)
(* callback.  batch.results is results_holder["results"], batch.emitted    *)
(* the events the driver passed to callback.                               *)
(***************************************************************************)
BatchEvents == {"batch_status", "transcribed_batch"}

\* {"event_type": "transcribed_batch", "results": []}
EmptyBatch == [event_type |-> "transcribed_batch", text |-> 0]

BatchFrame == UNCHANGED <<baseVars, updVars, liveVars, wsVars, outcome, twin, lateVars>>

\* the request up to t.start() and the first q.get()
BatchSubmit ==
    /\ batch.pc = "idle"
    /\ batch' = [batch EXCEPT !.pc = "waiting", !.thread = "running"]
    /\ BatchFrame

\* a callback that puts every event on the queue
BatchCallbackDirect(ty) ==
    /\ batch.thread = "running"
    /\ Len(batch.emitted) < MaxEvents
    /\ LET e == [event_type |-> ty, text |-> Len(batch.emitted) + 1]
       IN  batch' = [batch EXCEPT !.emitted = Append(@, e), !.q = Append(@, e)]
    /\ BatchFrame

\* callback(event_dict), called by the driver
BatchCallback(ty) ==
    /\ batch.thread = "running"
    /\ Len(batch.emitted) < MaxEvents
    /\ LET e == [event_type |-> ty, text |-> Len(batch.emitted) + 1]
       IN  batch' = IF ty = "transcribed_batch"
                    THEN [batch EXCEPT !.emitted = Append(@, e), !.results = e]
                    ELSE [batch EXCEPT !.emitted = Append(@, e), !.q = Append(@, e)]
    /\ BatchFrame

\* the driver returns and run_batch puts the final event
RunBatchReturn ==
    /\ batch.thread = "running"
    /\ batch' = [batch EXCEPT !.thread = "done",
                              !.q = Append(@, IF batch.results # NoEvent
                                              THEN batch.results ELSE EmptyBatch)]
    /\ BatchFrame

\* the driver raises: the thread ends without a final event
RunBatchRaise ==
    /\ batch.thread = "running"
    /\ batch' = [batch EXCEPT !.thread = "crashed"]
    /\ BatchFrame

\* q.get(), yield, break on transcribed_batch
BatchConsume ==
    /\ batch.pc = "waiting"
    /\ batch.q # <<>>
    /\ batch' = [batch EXCEPT !.yielded = Append(@, Frame(Head(batch.q))),
                              !.q = Tail(@),
                              !.pc = IF Head(batch.q).event_type = "transcribed_batch"
                                     THEN "joining" ELSE "waiting"]
    /\ BatchFrame

\* t.join()
BatchJoin ==
    /\ batch.pc = "joining"
    /\ batch.thread \in {"done", "crashed"}
    /\ batch' = [batch EXCEPT !.pc = "done"]
    /\ BatchFrame

(***************************************************************************)
(* The helpers of main.py around the store (main.py 76-126): each calls    *)
(* the store and uses the list app.state.history when the call raises.     *)
(* app.history is that list, app.made the ids of the History records       *)
(* add_history_record has returned, app.fallback those built outside the   *)
(* store, app.probe the last get or add and whether it found the History.  *)
(***************************************************************************)
\* uuid4 of the fallback History
UnusedHistIds ==
    HistIds \ (UsedIds(World) \cup {app.history[i].id : i \in 1..Len(app.history)})

\* the first History of app.state.history with that id, 0 when there is none
AppIndex(hs, hid) ==
    IF \E i \in 1..Len(hs) : hs[i].id = hid
    THEN CHOOSE i \in 1..Len(hs) : hs[i].id = hid /\ \A j \in 1..(i - 1) : hs[j].id # hid
    ELSE 0

\* main.add_history_record: the History of the store, or one appended to
\* app.state.history when the store raised; newid is the uuid4 of line 85
main_add_history_record(azure, w, a, hid, newid, u, s, fail_at) ==
    LET r == add_history_record_failing(azure, w, hid, u, s, fail_at)
    IN  IF r.answer # "raised"
        THEN [w |-> r.w, a |-> [a EXCEPT !.made = @ \cup {hid}], ret |-> hid]
        ELSE [w |-> r.w,
              a |-> [a EXCEPT !.history = Append(@, [id |-> newid, user_id |-> u,
                                      session_id |-> s, visible |-> TRUE,
                                      timestamp |-> 0, transcriptions |-> <<>>]),
                              !.made = @ \cup {newid},
                              !.fallback = @ \cup {newid}],
              ret |-> newid]

\* main.get_history_by_id: what the store returns; app.state.history only
\* when the store raised
main_get_history_by_id(azure, w, a, hid, fail_at) ==
    LET answer == get_history_by_id_failing(azure, w, hid, fail_at)
        h == get_history_by_id(azure, w, hid)
    IN  IF answer = "raised"
        THEN IF AppIndex(a.history, hid) # 0
             THEN a.history[AppIndex(a.history, hid)]
             ELSE NoHistory
        ELSE IF answer = "value" THEN h
        ELSE IF answer = "partial" THEN [h EXCEPT !.transcriptions = <<>>]
        ELSE NoHistory

\* main.add_transcription_to_history: what the store returns; the append to
\* the History of app.state.history only when the store raised
main_add_transcription_to_history(azure, w, a, hid, o, newid, fail_at) ==
    LET r == add_transcription_failing(azure, w, hid, o, newid, fail_at)
        i == AppIndex(a.history, hid)
    IN  IF r.answer = "raised"
        THEN IF i # 0
             THEN [w |-> r.w, a |-> [a EXCEPT !.history[i].transcriptions = Append(@, o)],
                   ret |-> TRUE]
             ELSE [w |-> r.w, a |-> a, ret |-> FALSE]
        ELSE [w |-> r.w, a |-> a, ret |-> (r.answer = "true")]

AppFrame ==
    UNCHANGED <<updVars, liveVars, wsVars, outcome, twin, batch, call, conn,
                use_azure_tables, pc, req, blob_url, history_record, transcription_record, worker, q,
                yielded, called, putlog, local, lastOp, addedTo>>

Probe(name, hid, fail_at, ok) == [op |-> name, id |-> hid, fail_at |-> fail_at, ok |-> ok]

MainAddHistory(u, s, fail_at) ==
    /\ ops < MaxOps
    /\ ops' = ops + 1
    /\ \E hid \in FreshIds(HistIds, World) \cap UnusedHistIds, newid \in UnusedHistIds :
          LET r == main_add_history_record(use_azure_tables, World, app, hid, newid,
                                           u, s, fail_at)
          IN  /\ SetWorld(r.w)
              /\ app' = [r.a EXCEPT !.probe = Probe("create", r.ret, fail_at, TRUE)]
    /\ AppFrame

MainGetHistory(hid, fail_at) ==
    /\ ops < MaxOps
    /\ ops' = ops + 1
    /\ LET h == main_get_history_by_id(use_azure_tables, World, app, hid, fail_at)
       IN  app' = [app EXCEPT !.probe = Probe("get", hid, fail_at, h.id = hid)]
    /\ UNCHANGED <<memory_history, memory_transcriptions, table, heap>>
    /\ AppFrame

MainAddTranscription(hid, o, fail_at) ==
    /\ ops < MaxOps
    /\ o \in CallerObjs /\ o <= MaxObjs
    /\ ops' = ops + 1
    /\ \E tid \in FreshIds(TransIds, World) :
          LET r == main_add_transcription_to_history(use_azure_tables, WithObj(o), app,
                                                     hid, o, tid, fail_at)
          IN  /\ SetWorld(r.w)
              /\ app' = [r.a EXCEPT !.probe = Probe("add", hid, fail_at, r.ret)]
    /\ AppFrame

(***************************************************************************)
(* add_transcription_to_history and toggle_history_visibility in table     *)
(* mode, request by request (history_storage.py 170-231 and 537-549).  The *)
(* callers are requests served by processes that share the table; each     *)
(* passes a Transcription object of its own.                               *)
(***************************************************************************)
MaxCalls == 2       \* calls of one caller

\* a caller that has not called yet; entity is the metadata row it has read
IdleRequest ==
    [op |-> "none", pc |-> "idle", history_id |-> NoId, t |-> NewTranscription,
     visible |-> FALSE, entity |-> HistoryEntity(NoId, None, None), ret |-> FALSE,
     calls |-> 0]

\* the values uuid4 may return while calls are under way
UnusedTransIds ==
    TransIds \ (UsedIds(World) \cup {call[d].t.id : d \in Callers})

\* add_transcription_to_history up to create_entity: the History is looked
\* up, the id is generated and stored in the object (172-182)
AddBegin(c, hid) ==
    /\ use_azure_tables
    /\ call[c].pc \in {"idle", "returned"}
    /\ call[c].calls < MaxCalls
    /\ IF get_history_by_id(TRUE, World, hid).id = NoId
       THEN call' = [call EXCEPT ![c] =
                        [IdleRequest EXCEPT !.op = "add", !.pc = "returned",
                                            !.history_id = hid, !.ret = FALSE,
                                            !.calls = call[c].calls + 1]]
       ELSE \E tid \in UnusedTransIds :
               call' = [call EXCEPT ![c] =
                           [IdleRequest EXCEPT !.op = "add", !.pc = "creating",
                                               !.history_id = hid, !.t.id = tid,
                                               !.calls = call[c].calls + 1]]
    /\ UNCHANGED <<baseVars, updVars, liveVars, wsVars, outcome, twin, batch, app, conn>>

\* table_client.create_entity(transcription_entity) (220)
AddCreate(c) ==
    LET a == call[c]
    IN  /\ a.op = "add" /\ a.pc = "creating"
        /\ table' = table \cup {TranscriptionEntity(a.history_id, a.t.id, a.t)}
        /\ call' = [call EXCEPT ![c].pc = "reading"]
        /\ UNCHANGED <<use_azure_tables, memory_history, memory_transcriptions, heap,
                       reqVars, updVars, liveVars, wsVars, outcome, twin, batch, app, conn>>

\* history_entity = table_client.get_entity(history_id, "main") (223-226)
AddRead(c) ==
    LET a == call[c]
        found == GetEntity(table, a.history_id, MainRow)
    IN  /\ a.op = "add" /\ a.pc = "reading"
        /\ call' = [call EXCEPT ![c] =
                        IF found = {} THEN [a EXCEPT !.pc = "returned", !.ret = FALSE]
                        ELSE [a EXCEPT !.pc = "writing",
                                       !.entity = CHOOSE e \in found : TRUE]]
        /\ UNCHANGED <<baseVars, updVars, liveVars, wsVars, outcome, twin, batch, app, conn>>

\* the count of the entity read is incremented and the entity is sent back
\* with update_entity, every property of it, without etag (227-228)
AddWrite(c) ==
    LET a == call[c]
    IN  /\ a.op = "add" /\ a.pc = "writing"
        /\ table' = PutEntity(table,
                        [a.entity EXCEPT !.transcription_count = @ + 1])
        /\ call' = [call EXCEPT ![c].pc = "returned", ![c].ret = TRUE]
        /\ UNCHANGED <<use_azure_tables, memory_history, memory_transcriptions, heap,
                       reqVars, updVars, liveVars, wsVars, outcome, twin, batch, app, conn>>

\* toggle_history_visibility up to update_entity: get_entity of the
\* metadata row, ResourceNotFoundError caught and False returned (540-553)
ToggleRead(c, hid, v) ==
    LET found == GetEntity(table, hid, MainRow)
        begun == [IdleRequest EXCEPT !.op = "toggle", !.history_id = hid,
                                     !.visible = v, !.calls = call[c].calls + 1]
    IN  /\ use_azure_tables
        /\ call[c].pc \in {"idle", "returned"}
        /\ call[c].calls < MaxCalls
        /\ call' = [call EXCEPT ![c] =
                        IF found = {} THEN [begun EXCEPT !.pc = "returned", !.ret = FALSE]
                        ELSE [begun EXCEPT !.pc = "toggling",
                                           !.entity = CHOOSE e \in found : TRUE]]
        /\ UNCHANGED <<baseVars, updVars, liveVars, wsVars, outcome, twin, batch, app, conn>>

\* entity["visible"] = visible; table_client.update_entity(entity) (545-549)
ToggleWrite(c) ==
    LET a == call[c]
    IN  /\ a.op = "toggle" /\ a.pc = "toggling"
        /\ table' = PutEntity(table, [a.entity EXCEPT !.visible = a.visible])
        /\ call' = [call EXCEPT ![c].pc = "returned", ![c].ret = TRUE]
        /\ UNCHANGED <<use_azure_tables, memory_history, memory_transcriptions, heap,
                       reqVars, updVars, liveVars, wsVars, outcome, twin, batch, app, conn>>

(***************************************************************************)
(* update_transcription in table mode, step by step: two callers, each     *)
(* with a Transcription of its own (history_storage.py 237-339).  A call   *)
(* reads the row, writes the row, and sleeps between two attempts.         *)
(***************************************************************************)
max_retries == 3

\* Transcriptions a caller may pass: read from the store and changed since
CallerStates(ids) ==
    [id : ids, status : {"completed", "failed"},
     transcript_chunks : {<<>>, <<[event_type |-> "transcribed", text |-> 1]>>},
     timestamp : {1, 2}]

\* the answer of the table service to update_entity: 412 only to a request
\* that carries the ETag of an entity replaced since it was read
UpdateAnswer(with_etag, stale) == IF with_etag /\ stale THEN "412" ELSE "ok"

\* the except clauses of the retry loop (history_storage.py 318-337): kind is
\* "412", "http" (another HttpResponseError, 404 included) or "exception"
Retry(u, kind) ==
    IF kind # "http" /\ u.attempt < max_retries - 1
    THEN [u EXCEPT !.pc = "sleeping", !.sleeps = Append(@, 100 * 2 ^ u.attempt)]
    ELSE [u EXCEPT !.pc = "returned", !.ret = FALSE]

\* update_transcription(history_id, t) up to the first get_entity
UpdateCall(c, hid, t) ==
    /\ use_azure_tables
    /\ upd[c].pc = "idle"
    /\ upd' = [upd EXCEPT ![c] =
                  IF t.id = NoId
                  THEN [@ EXCEPT !.pc = "returned", !.history_id = hid, !.t = t,
                                 !.ret = FALSE]
                  ELSE [@ EXCEPT !.pc = "reading", !.history_id = hid, !.t = t]]
    /\ UNCHANGED <<baseVars, extVars, liveVars, wsVars>>

\* table_client.get_entity of one attempt; failed: the request raised
UpdateRead(c, failed) ==
    LET u == upd[c]
        found == GetEntity(table, u.history_id, u.t.id)
    IN  /\ u.pc = "reading"
        /\ upd' = [upd EXCEPT ![c] =
                      IF failed
                      THEN Retry([u EXCEPT !.faults = @ + 1], "exception")
                      ELSE IF found = {} THEN Retry(u, "http")
                      ELSE [u EXCEPT !.pc = "writing", !.stale = FALSE,
                                     !.entity = CHOOSE e \in found : TRUE]]
        /\ UNCHANGED <<baseVars, extVars, liveVars, wsVars>>

\* table_client.update_entity(entity, mode="replace") of one attempt, sent
\* without etag and match_condition (history_storage.py 313)
UpdateWrite(c, failed) ==
    LET u == upd[c]
        answer == IF failed THEN "exception" ELSE UpdateAnswer(FALSE, u.stale)
        sent == IF failed THEN [u EXCEPT !.faults = @ + 1]
                ELSE [u EXCEPT !.writes = @ + 1,
                               !.conflicts = @ + (IF u.stale THEN 1 ELSE 0)]
        SameRow(v) == /\ v.history_id = u.history_id
                      /\ v.t.id = u.t.id
    IN  /\ u.pc = "writing"
        /\ IF answer = "ok"
           THEN /\ table' = PutEntity(table, UpdatedEntity(u.entity, u.t))
                /\ upd' = [d \in Callers |->
                             IF d = c
                             THEN [sent EXCEPT !.pc = "returned", !.ret = TRUE]
                             ELSE IF upd[d].pc = "writing" /\ SameRow(upd[d])
                             THEN [upd[d] EXCEPT !.stale = TRUE]
                             ELSE upd[d]]
           ELSE /\ table' = table
                /\ upd' = [upd EXCEPT ![c] = Retry(sent, answer)]
        /\ UNCHANGED <<use_azure_tables, memory_history, memory_transcriptions, heap,
                       reqVars, liveVars, wsVars, extVars>>

\* time.sleep returns and the next attempt starts
UpdateWake(c) ==
    /\ upd[c].pc = "sleeping"
    /\ upd' = [upd EXCEPT ![c].pc = "reading", ![c].attempt = @ + 1]
    /\ UNCHANGED <<baseVars, extVars, liveVars, wsVars>>

(***************************************************************************)
(* Live sessions (utils/transcription_live_direct.py).  The request tasks  *)
(* run on the event loop and give way at every await; the handlers of a    *)
(* recognizer run on a thread of the SDK.                                  *)
(***************************************************************************)
LiveKeys == {"default"}

PushTasks == {1, 2}

RecentWindow == 5

KeepWindow == 30

ClockValues == {0, RecentWindow, RecentWindow + 1, KeepWindow, KeepWindow + 1}

IdleTask ==
    [pc |-> "idle", key |-> None, session |-> 0, calls |-> 0, failed |-> FALSE,
     current_time |-> 0, recent |-> <<>>, kept |-> <<>>, mark |-> 0,
     result |-> [success |-> FALSE, results |-> <<>>]]

\* mark: the number of results delivered when the call read the buffer

\* session = {...} of _get_or_create_session (lines 148-154); live: no
\* cleanup of its key has run since it was constructed
NewSession(k) ==
    [key |-> k, started |-> FALSE, stopped |-> FALSE, closed |-> FALSE,
     results |-> <<>>, live |-> TRUE]

\* a window that leaves out the entry that is exactly window old
WithinStrictly(results, current_time, window) ==
    SelectSeq(results, LAMBDA r : current_time - r.timestamp < window)

\* [r for r in results if current_time - r["timestamp"] <= window]
Within(results, current_time, window) ==
    SelectSeq(results, LAMBDA r : current_time - r.timestamp <= window)

\* return {"success": False, "error": ..., "results": []}
Failure(u) ==
    [u EXCEPT !.pc = "returned", !.failed = TRUE,
              !.result = [success |-> FALSE, results |-> <<>>]]

\* the event loop can run a step of task p (0: the cleanup): no other task
\* is between two awaits, in the straight-line code of lines 235-256
LoopFree(p) == \A r \in PushTasks \ {p} : task[r].pc \notin {"read", "filtered"}

\* from utils.transcription_live_direct import ... (main.py 1293): the module
\* reads AZURE_SPEECH_KEY once; AZURE_CLIENT_ID is in the environment or not
ImportLive(key, cid) ==
    /\ ~env.loaded
    /\ env' = [loaded |-> TRUE, speech_key |-> key, client_id |-> cid]
    /\ UNCHANGED <<baseVars, extVars, updVars, wsVars, active_sessions, sessions, task, cleanup,
                   now, delivered>>

\* process_audio_chunk_direct without the test for credentials
PushBeginUnchecked(p, k, ok) ==
    /\ env.loaded
    /\ LoopFree(p)
    /\ task[p].pc \in {"idle", "returned"}
    /\ task[p].calls < MaxPushes
    /\ LET u == [IdleTask EXCEPT !.key = k, !.calls = task[p].calls + 1]
       IN  /\ Len(sessions) < MaxSessions
           /\ sessions' = Append(sessions, NewSession(k))
           /\ task' = [task EXCEPT ![p] =
                          [u EXCEPT !.pc = "starting", !.session = Len(sessions) + 1]]
    /\ UNCHANGED <<baseVars, extVars, updVars, wsVars, env, active_sessions, cleanup, now, delivered>>

\* process_audio_chunk_direct(audio_data, k) up to its first await (lines
\* 72-160): the test for credentials, the lookup, and for an unknown key the
\* construction of the recognizer; ok: nothing in the construction raised
PushBegin(p, k, ok) ==
    /\ env.loaded
    /\ LoopFree(p)
    /\ task[p].pc \in {"idle", "returned"}
    /\ task[p].calls < MaxPushes
    /\ LET u == [IdleTask EXCEPT !.key = k, !.calls = task[p].calls + 1]
       IN  IF ~env.speech_key /\ ~env.client_id
           THEN /\ task' = [task EXCEPT ![p] =
                               [u EXCEPT !.pc = "returned",
                                         !.result = [success |-> FALSE,
                                                     results |-> <<>>]]]
                /\ sessions' = sessions
           ELSE IF active_sessions[k] # 0
           THEN /\ task' = [task EXCEPT ![p] =
                               [u EXCEPT !.pc = "writing",
                                         !.session = active_sessions[k]]]
                /\ sessions' = sessions
           ELSE IF ~ok
           THEN /\ task' = [task EXCEPT ![p] = Failure(u)]
                /\ sessions' = sessions
           ELSE /\ Len(sessions) < MaxSessions
                /\ sessions' = Append(sessions, NewSession(k))
                /\ task' = [task EXCEPT ![p] =
                               [u EXCEPT !.pc = "starting",
                                         !.session = Len(sessions) + 1]]
    /\ UNCHANGED <<baseVars, extVars, updVars, wsVars, env, active_sessions, cleanup, now, delivered>>

\* start_continuous_recognition_async().get returns or raises; then the
\* session is put into the registry (lines 160-174)
PushStarted(p, ok) ==
    LET u == task[p]
    IN  /\ u.pc = "starting"
        /\ LoopFree(p)
        /\ IF ok
           THEN /\ sessions' = [sessions EXCEPT ![u.session].started = TRUE]
                /\ active_sessions' = [active_sessions EXCEPT ![u.key] = u.session]
                /\ task' = [task EXCEPT ![p].pc = "writing"]
           ELSE /\ task' = [task EXCEPT ![p] = Failure(u)]
                /\ UNCHANGED <<sessions, active_sessions>>
        /\ UNCHANGED <<baseVars, extVars, updVars, wsVars, env, cleanup, now, delivered>>

\* push_stream.write in the executor returns or raises (lines 221-229)
PushWritten(p, ok) ==
    /\ task[p].pc = "writing"
    /\ LoopFree(p)
    /\ task' = [task EXCEPT ![p] = IF ok THEN [@ EXCEPT !.pc = "sleeping"]
                                   ELSE Failure(@)]
    /\ UNCHANGED <<baseVars, extVars, updVars, wsVars, env, active_sessions, sessions, cleanup, now,
                   delivered>>

\* after asyncio.sleep(0.5): current_time and recent_results (lines 235-239)
PushRead(p) ==
    LET u == task[p]
    IN  /\ u.pc = "sleeping"
        /\ LoopFree(p)
        /\ task' = [task EXCEPT ![p].pc = "read", ![p].current_time = now,
                                ![p].mark = delivered,
                                ![p].recent = Within(sessions[u.session].results,
                                                     now, RecentWindow)]
        /\ UNCHANGED <<baseVars, extVars, updVars, wsVars, env, active_sessions, sessions, cleanup,
                       now, delivered>>

\* the list of the entries to keep is built (lines 243-245)
PushFilter(p) ==
    LET u == task[p]
    IN  /\ u.pc = "read"
        /\ task' = [task EXCEPT ![p].pc = "filtered",
                                ![p].kept = Within(sessions[u.session].results,
                                                   u.current_time, KeepWindow)]
        /\ UNCHANGED <<baseVars, extVars, updVars, wsVars, env, active_sessions, sessions, cleanup,
                       now, delivered>>

\* session["results"] = ... and the return (lines 242 and 247-256)
PushAssign(p) ==
    LET u == task[p]
    IN  /\ u.pc = "filtered"
        /\ sessions' = [sessions EXCEPT ![u.session].results = u.kept]
        /\ task' = [task EXCEPT ![p].pc = "returned", ![p].recent = <<>>,
                                ![p].kept = <<>>, ![p].mark = 0,
                                ![p].result = [success |-> TRUE, results |-> u.recent]]
        /\ UNCHANGED <<baseVars, extVars, updVars, wsVars, env, active_sessions, cleanup, now,
                       delivered>>

\* transcribed_handler on the SDK thread: a recognized result is appended to
\* the results of the handler's own session (lines 180-197)
Recognized(s) ==
    /\ s \in 1..Len(sessions)
    /\ sessions[s].started /\ ~sessions[s].stopped
    /\ delivered < MaxResults
    /\ delivered' = delivered + 1
    /\ sessions' = [sessions EXCEPT ![s].results =
                       Append(@, [id |-> delivered + 1, timestamp |-> now])]
    /\ UNCHANGED <<baseVars, extVars, updVars, wsVars, env, active_sessions, task, cleanup, now>>

\* time passes: the clock is read at these values, the ages that the two
\* windows tell apart
Tick(t) ==
    /\ t \in ClockValues
    /\ LoopFree(0)
    /\ now < t /\ t <= MaxTime
    /\ now' = t
    /\ UNCHANGED <<baseVars, extVars, updVars, wsVars, env, active_sessions, sessions, task, cleanup,
                   delivered>>

\* a cleanup that deletes the entry only when nothing raised
CleanupEndNoFinally(stop_ok, close_ok) ==
    /\ cleanup.pc = "stopping"
    /\ LoopFree(0)
    /\ sessions' = [sessions EXCEPT ![cleanup.session].stopped = stop_ok,
                                    ![cleanup.session].closed = stop_ok /\ close_ok]
    /\ active_sessions' = IF stop_ok /\ close_ok
                          THEN [active_sessions EXCEPT ![cleanup.key] = 0]
                          ELSE active_sessions
    /\ cleanup' = [cleanup EXCEPT !.pc = "returned"]
    /\ UNCHANGED <<baseVars, extVars, updVars, wsVars, env, task, now, delivered>>

\* cleanup_session(k) up to its await (lines 266-277); for an unknown key the
\* whole call
CleanupBegin(k) ==
    /\ env.loaded
    /\ LoopFree(0)
    /\ cleanup.pc \in {"idle", "returned"}
    /\ cleanup.calls < MaxCleanups
    /\ cleanup' = IF active_sessions[k] = 0
                  THEN [cleanup EXCEPT !.pc = "returned", !.key = k, !.session = 0,
                                       !.calls = @ + 1, !.noop = TRUE]
                  ELSE [cleanup EXCEPT !.pc = "stopping", !.key = k,
                                       !.session = active_sessions[k],
                                       !.calls = @ + 1, !.noop = FALSE]
    /\ UNCHANGED <<baseVars, extVars, updVars, wsVars, env, active_sessions, sessions, task, now,
                   delivered>>

\* the stop returns or raises, the stream is closed or close raises, and the
\* entry is deleted in the finally clause (lines 274-293)
CleanupEnd(stop_ok, close_ok) ==
    LET s == cleanup.session
        k == cleanup.key
    IN  /\ cleanup.pc = "stopping"
        /\ LoopFree(0)
        /\ sessions' = [i \in 1..Len(sessions) |->
                           LET x == IF sessions[i].key = k /\ active_sessions[k] # 0
                                    THEN [sessions[i] EXCEPT !.live = FALSE]
                                    ELSE sessions[i]
                           IN  IF i # s THEN x
                               ELSE [x EXCEPT !.stopped = stop_ok,
                                              !.closed = stop_ok /\ close_ok]]
        /\ active_sessions' = [active_sessions EXCEPT ![k] = 0]
        /\ cleanup' = [cleanup EXCEPT !.pc = "returned",
                                      !.raised = (active_sessions[k] = 0)]
        /\ UNCHANGED <<baseVars, extVars, updVars, wsVars, env, task, now, delivered>>

(***************************************************************************)
(* The handler of a /ws/transcribe connection: SimpleTranscriptionHandler  *)
(* (utils/transcription_simple.py), which main.py 994-995 constructs, or   *)
(* LiveTranscriptionHandler (utils/transcription_live.py), whose results   *)
(* are appended by the handlers of the recognizer on a thread of the SDK.  *)
(***************************************************************************)
HandlerKinds == {"simple", "live"}

MockEvery == 10

\* results_queue.append(...): the entry is numbered in the order of appends
AppendResult(h) == [h EXCEPT !.results_queue = Append(@, appended + 1)]

\* start_session (transcription_simple.py 27-40, transcription_live.py
\* 100-136); ok: the recognizer of the live handler could be started
StartSession(kind, ok) ==
    /\ handler.kind = None
    /\ drain.pc = "idle"
    /\ IF kind = "simple"
       THEN /\ handler' = AppendResult([handler EXCEPT !.kind = kind,
                                                       !.is_active = TRUE])
            /\ appended' = appended + 1
       ELSE /\ handler' = [handler EXCEPT !.kind = kind, !.is_active = ok]
            /\ appended' = appended
    /\ UNCHANGED <<baseVars, extVars, updVars, liveVars, drain, drained>>

\* process_audio_chunk (transcription_simple.py 42-59, transcription_live.py
\* 191-207): the mock appends a result every 10th chunk, the live handler
\* writes the chunk to the push stream
ProcessAudioChunk ==
    /\ handler.kind # None
    /\ drain.pc = "idle"
    /\ handler.chunk_count < MaxChunks
    /\ IF ~handler.is_active
       THEN UNCHANGED <<handler, appended>>
       ELSE IF handler.kind = "simple"
       THEN LET h == [handler EXCEPT !.chunk_count = @ + 1]
            IN  IF h.chunk_count % MockEvery = 0
                THEN handler' = AppendResult(h) /\ appended' = appended + 1
                ELSE handler' = h /\ appended' = appended
       ELSE handler' = [handler EXCEPT !.chunk_count = @ + 1] /\ appended' = appended
    /\ UNCHANGED <<baseVars, extVars, updVars, liveVars, drain, drained>>

\* transcribed_handler or canceled_handler of the live handler, on the SDK
\* thread (transcription_live.py 141-183)
RecognizerEvent ==
    /\ handler.kind = "live"
    /\ handler.is_active
    /\ appended < MaxResults
    /\ handler' = AppendResult(handler)
    /\ appended' = appended + 1
    /\ UNCHANGED <<baseVars, extVars, updVars, liveVars, drain, drained>>

\* get_results is called: results = []; mark: the number of results appended
\* before the call
GetResultsBegin ==
    /\ handler.kind # None
    /\ drain.pc = "idle"
    /\ drain.calls < MaxDrains
    /\ drain' = [drain EXCEPT !.pc = "draining", !.results = <<>>, !.calls = @ + 1,
                              !.mark = appended]
    /\ UNCHANGED <<baseVars, extVars, updVars, liveVars, handler, drained, appended>>

\* a get_results that returns the newest result only and empties the queue
GetResultsNewest ==
    /\ drain.pc = "draining"
    /\ handler.results_queue # <<>>
    /\ drain' = [drain EXCEPT !.results =
                    <<handler.results_queue[Len(handler.results_queue)]>>]
    /\ handler' = [handler EXCEPT !.results_queue = <<>>]
    /\ UNCHANGED <<baseVars, extVars, updVars, liveVars, drained, appended>>

\* one turn of while self.results_queue: results.append(popleft())
GetResultsPop ==
    /\ drain.pc = "draining"
    /\ handler.results_queue # <<>>
    /\ drain' = [drain EXCEPT !.results = Append(@, Head(handler.results_queue))]
    /\ handler' = [handler EXCEPT !.results_queue = Tail(@)]
    /\ UNCHANGED <<baseVars, extVars, updVars, liveVars, drained, appended>>

\* the queue is found empty: return results
GetResultsReturn ==
    /\ drain.pc = "draining"
    /\ handler.results_queue = <<>>
    /\ drain' = [drain EXCEPT !.pc = "idle", !.results = <<>>, !.last = drain.results]
    /\ drained' = drained \o drain.results
    /\ UNCHANGED <<baseVars, extVars, updVars, liveVars, handler, appended>>

\* stop_session (transcription_simple.py 68-71, transcription_live.py 219-241)
StopSession ==
    /\ handler.kind # None
    /\ drain.pc = "idle"
    /\ handler.is_active
    /\ handler' = [handler EXCEPT !.is_active = FALSE]
    /\ UNCHANGED <<baseVars, extVars, updVars, liveVars, drain, drained, appended>>

(***************************************************************************)
(* The coroutine of a /ws/transcribe connection (main.py 965-1041) with    *)
(* its SimpleTranscriptionHandler.  conn.pc is the await it has reached,   *)
(* conn.reason why the loop was left, conn.messages the number of binary   *)
(* messages, conn.late the calls of process_audio_chunk made on the        *)
(* handler after the connection was closed.                                *)
(***************************************************************************)
Messages == {"bytes", "text", "stop", "malformed", "disconnect", "disconnect_message"}

\* SimpleTranscriptionHandler.process_audio_chunk on handler h: the handler
\* after the call and the number of results it appended
process_audio_chunk(h) ==
    IF ~h.is_active THEN [h |-> h, added |-> 0]
    ELSE LET c == [h EXCEPT !.chunk_count = @ + 1]
         IN  IF c.chunk_count % MockEvery = 0
             THEN [h |-> AppendResult(c), added |-> 1]
             ELSE [h |-> c, added |-> 0]

ConnFrame == UNCHANGED <<baseVars, updVars, liveVars, outcome, twin, batch, call, app, drain>>

\* websocket.accept() and the connection acknowledgment (971-986); the
\* handler is constructed and its session started (995-998) unless the
\* send raised
WsAccept(send_ok) ==
    /\ conn.pc = "idle"
    /\ handler.kind = None
    /\ IF send_ok
       THEN /\ handler' = AppendResult([handler EXCEPT !.kind = "simple",
                                                       !.is_active = TRUE])
            /\ appended' = appended + 1
            /\ conn' = [conn EXCEPT !.pc = "receiving"]
       ELSE /\ UNCHANGED <<handler, appended>>
            /\ conn' = [conn EXCEPT !.pc = "except", !.reason = "error"]
    /\ UNCHANGED drained
    /\ ConnFrame

\* message = await websocket.receive() and the branch taken (1001-1015)
WsReceive(m) ==
    /\ conn.pc = "receiving"
    /\ m = "bytes" => handler.chunk_count < MaxChunks
    /\ IF m = "bytes"
       THEN LET r == process_audio_chunk(handler)
            IN  /\ handler' = r.h
                /\ appended' = appended + r.added
                /\ conn' = [conn EXCEPT !.pc = "results", !.messages = @ + 1]
       ELSE /\ UNCHANGED <<handler, appended>>
            /\ conn' = CASE m = "stop" -> [conn EXCEPT !.pc = "finally", !.reason = "stop"]
                         [] m = "disconnect" ->
                               [conn EXCEPT !.pc = "finally", !.reason = "disconnect"]
                         [] m = "malformed" ->
                               [conn EXCEPT !.pc = "except", !.reason = "error"]
                         [] m = "disconnect_message" ->
                               [conn EXCEPT !.pc = "results", !.reason = "disconnect"]
                         [] OTHER -> [conn EXCEPT !.pc = "results"]
    /\ UNCHANGED drained
    /\ ConnFrame

\* results = await get_results() and the send of the results (1017-1023);
\* after a disconnect message the next receive raises
WsResults(send_ok) ==
    /\ conn.pc = "results"
    /\ handler' = [handler EXCEPT !.results_queue = <<>>]
    /\ drained' = drained \o handler.results_queue
    /\ conn' = IF handler.results_queue # <<>> /\ ~send_ok
               THEN [conn EXCEPT !.pc = "except", !.reason = "error"]
               ELSE IF conn.reason = "disconnect"
               THEN [conn EXCEPT !.pc = "except"]
               ELSE [conn EXCEPT !.pc = "receiving"]
    /\ UNCHANGED appended
    /\ ConnFrame

\* except Exception: the error is sent to the client, which may raise
\* again (1027-1032)
WsExcept(send_ok) ==
    /\ conn.pc = "except"
    /\ conn' = [conn EXCEPT !.pc = "finally"]
    /\ UNCHANGED <<handler, drained, appended>>
    /\ ConnFrame

\* a finally clause that closes the socket and leaves the handler alone
WsFinallyNoStop ==
    /\ conn.pc = "finally"
    /\ conn' = [conn EXCEPT !.pc = "closed"]
    /\ UNCHANGED <<handler, drained, appended>>
    /\ ConnFrame

\* finally: stop_session when the handler exists, websocket.close() with
\* its exceptions swallowed (1033-1041)
WsFinally ==
    /\ conn.pc = "finally"
    /\ conn' = [conn EXCEPT !.pc = "closed"]
    /\ handler' = IF handler.kind # None THEN [handler EXCEPT !.is_active = FALSE]
                  ELSE handler
    /\ UNCHANGED <<drained, appended>>
    /\ ConnFrame

\* process_audio_chunk called on the handler of a closed connection
WsLateChunk ==
    /\ conn.pc = "closed"
    /\ handler.kind # None
    /\ conn.late < MaxPushes
    /\ LET r == process_audio_chunk(handler)
       IN  /\ handler' = r.h
           /\ appended' = appended + r.added
    /\ conn' = [conn EXCEPT !.late = @ + 1]
    /\ UNCHANGED drained
    /\ ConnFrame

(***************************************************************************)
(* The specification.                                                      *)
(***************************************************************************)
Init ==
    /\ use_azure_tables \in BOOLEAN
    /\ memory_history = <<>>
    /\ memory_transcriptions = <<>>
    /\ table = {}
    /\ heap = <<>>
    /\ pc = "idle"
    /\ req = [model |-> None, user_id |-> None, session_id |-> None, channels |-> 1]
    /\ blob_url = FALSE
    /\ history_record = NoId
    /\ transcription_record = 0
    /\ worker = [t \in Threads |-> [pc |-> "unstarted", ev |-> NoEvent]]
    /\ q = <<>>
    /\ yielded = <<>>
    /\ called = <<>>
    /\ putlog = <<>>
    /\ ops = 0
    /\ local = {}
    /\ lastOp = [op |-> "none", history_id |-> NoId, obj |-> 0, id_before |-> NoId,
                 result |-> FALSE, accesses |-> 0, seq |-> 0]
    /\ addedTo = {}
    /\ upd = [c \in Callers |-> IdleCall]
    /\ env = [loaded |-> FALSE, speech_key |-> FALSE, client_id |-> FALSE]
    /\ active_sessions = [k \in LiveKeys |-> 0]
    /\ sessions = <<>>
    /\ task = [p \in PushTasks |-> IdleTask]
    /\ cleanup = [pc |-> "idle", key |-> None, session |-> 0, calls |-> 0,
                  noop |-> FALSE, raised |-> FALSE]
    /\ now = 0
    /\ delivered = 0
    /\ handler = [kind |-> None, is_active |-> FALSE, chunk_count |-> 0,
                  results_queue |-> <<>>]
    /\ drain = [pc |-> "idle", results |-> <<>>, calls |-> 0, last |-> <<>>,
                mark |-> 0]
    /\ drained = <<>>
    /\ appended = 0
    /\ outcome = [op |-> "none", fail_at |-> 0, raised |-> FALSE, answer |-> None]
    /\ twin = [mem |-> EmptyWorld, tab |-> EmptyWorld, calls |-> 0,
               ret_mem |-> FALSE, ret_tab |-> FALSE]
    /\ batch = [pc |-> "idle", thread |-> "unstarted", q |-> <<>>,
                results |-> NoEvent, emitted |-> <<>>, yielded |-> <<>>]
    /\ call = [c \in Callers |-> IdleRequest]
    /\ conn = [pc |-> "idle", reason |-> None, messages |-> 0, late |-> 0]
    /\ app = [history |-> <<>>, made |-> {}, fallback |-> {},
              probe |-> [op |-> "none", id |-> NoId, fail_at |-> 0, ok |-> FALSE]]

\* POST /submit with every model, and the backend threads and generator of
\* the request; the store is empty when the request arrives
NextStream ==
    \/ \E m \in Models, u \in {"u1", None}, s \in Sessions,
          channels \in {1, 2}, filetype \in {"wav", "unknown"},
          upload_ok \in BOOLEAN :
          Submit(m, u, s, channels, filetype, upload_ok)
    \/ Dispatch
    \/ \E t \in Threads, ty \in EventTypes : CallbackUpdate(t, ty)
    \/ \E t \in Threads : CallbackPut(t)
    \/ \E t \in Threads : WorkerReturn(t)
    \/ \E t \in Threads : WorkerRaise(t)
    \/ Consume
    \/ JoinAndPersist

SpecStream == Init /\ [][NextStream]_vars

\* an event with text, one that ends the stream, and an error
ProducerEvents == {"transcribed", "closing", "error"}

\* POST /submit with a streaming model, its worker threads, and a client that
\* reads the stream or goes away
NextProducer ==
    \/ \E s \in Sessions, channels \in {1, 2} :
          Submit("llm", "u1", s, channels, "wav", FALSE)
    \/ Dispatch
    \/ \E t \in Threads, ty \in ProducerEvents : CallbackUpdate(t, ty)
    \/ \E t \in Threads : CallbackPut(t)
    \/ \E t \in Threads : WorkerReturn(t)
    \/ \E t \in Threads : WorkerRaise(t)
    \/ Consume
    \/ Disconnect
    \/ JoinAndPersist

\* a thread that can run does run: the steps of a worker thread are taken
\* when they stay possible.  Nothing is assumed of the generator or the client
SpecProducer ==
    /\ Init /\ [][NextProducer]_vars
    /\ \A t \in Threads : WF_vars(CallbackPut(t))
    /\ \A t \in Threads : WF_vars(WorkerReturn(t) \/ WorkerRaise(t)
                                    \/ \E ty \in ProducerEvents : CallbackUpdate(t, ty))

\* POST /submit of user u1 with a mono file, next to requests of any user
\* that create a History or change its visibility
NextSubmit ==
    \/ \E m \in {"llm", "bogus", None}, s \in Sessions :
          Submit(m, "u1", s, 1, "wav", FALSE)
    \/ Dispatch
    \/ \E ty \in {"transcribed", "closing", "session_stopped", "error"} :
          CallbackUpdate(1, ty)
    \/ CallbackPut(1)
    \/ WorkerReturn(1)
    \/ WorkerRaise(1)
    \/ Consume
    \/ JoinAndPersist
    \/ \E u \in Users, s \in Sessions : ops < MaxPre /\ CreateHistory(u, s)
    \/ \E hid \in HistIds, v \in BOOLEAN : ops < MaxPre /\ ToggleVisibility(hid, v)

SpecSubmit == Init /\ [][NextSubmit]_vars

\* the store operations alone
NextStore ==
    \/ \E u \in Users, s \in Sessions : CreateHistory(u, s)
    \/ \E hid \in HistIds, v \in BOOLEAN : ToggleVisibility(hid, v)
    \/ \E hid \in HistIds, o \in Objs : StoreAdd(hid, o)
    \/ \E hid \in HistIds, o \in Objs : StoreUpdate(hid, o)
    \/ \E o \in Objs, ty \in {"transcribed", "closing", "error"} :
          MutateTranscription(o, ty)

SpecStore == Init /\ [][NextStore]_vars

\* two calls of update_transcription at the same time in table mode, after
\* the requests that created the History and added the Transcription
NextUpdate ==
    \/ \E s \in Sessions : ops <= MaxPre /\ CreateHistory("u1", s)
    \/ \E hid \in HistIds, o \in Objs : ops <= MaxPre /\ StoreAdd(hid, o)
    \/ \E c \in Callers, hid \in HistIds,
          t \in CallerStates({e.RowKey : e \in table} \ {MainRow}) :
          UpdateCall(c, hid, t)
    \/ \E c \in Callers, failed \in BOOLEAN : UpdateRead(c, failed)
    \/ \E c \in Callers, failed \in BOOLEAN : UpdateWrite(c, failed)
    \/ \E c \in Callers : UpdateWake(c)

SpecUpdate == Init /\ [][NextUpdate]_vars

\* requests that push audio to a live session or clean it up, one after the
\* other or at the same time
NextLive ==
    \/ \E key \in BOOLEAN, cid \in BOOLEAN : ImportLive(key, cid)
    \/ \E p \in PushTasks, k \in LiveKeys, ok \in BOOLEAN : PushBegin(p, k, ok)
    \/ \E p \in PushTasks, ok \in BOOLEAN : PushStarted(p, ok)
    \/ \E p \in PushTasks, ok \in BOOLEAN : PushWritten(p, ok)
    \/ \E p \in PushTasks : PushRead(p)
    \/ \E p \in PushTasks : PushFilter(p)
    \/ \E p \in PushTasks : PushAssign(p)
    \/ \E k \in LiveKeys : CleanupBegin(k)
    \/ \E stop_ok \in BOOLEAN, close_ok \in BOOLEAN : CleanupEnd(stop_ok, close_ok)

SpecLive == Init /\ [][NextLive]_vars

\* pushes to one live session with credentials, the recognizer thread that
\* delivers results, and the clock
NextWindow ==
    \/ ImportLive(TRUE, FALSE)
    \/ \E p \in PushTasks, k \in LiveKeys : PushBegin(p, k, TRUE)
    \/ \E p \in PushTasks : PushStarted(p, TRUE)
    \/ \E p \in PushTasks, ok \in BOOLEAN : PushWritten(p, ok)
    \/ \E p \in PushTasks : PushRead(p)
    \/ \E p \in PushTasks : PushFilter(p)
    \/ \E p \in PushTasks : PushAssign(p)
    \/ \E s \in 1..MaxSessions : Recognized(s)
    \/ \E t \in 1..MaxTime : Tick(t)

SpecWindow == Init /\ [][NextWindow]_vars

\* one /ws/transcribe connection: its handler, the audio chunks, the drains
\* and, for the live handler, the recognizer thread
NextWs ==
    \/ \E kind \in HandlerKinds, ok \in BOOLEAN : StartSession(kind, ok)
    \/ ProcessAudioChunk
    \/ RecognizerEvent
    \/ GetResultsBegin
    \/ GetResultsPop
    \/ GetResultsReturn
    \/ StopSession

SpecWs == Init /\ [][NextWs]_vars

\* POST /submit of user u1 for a session that may have several Histories,
\* created or hidden by earlier requests
NextSession ==
    \/ \E u \in Users, s \in Sessions : ops <= MaxPre /\ CreateHistory(u, s)
    \/ \E hid \in HistIds, v \in BOOLEAN : ops <= MaxPre /\ ToggleVisibility(hid, v)
    \/ \E u \in {"u1", None}, s \in Sessions : Submit("llm", u, s, 1, "wav", FALSE)

SpecSession == Init /\ [][NextSession]_vars

\* the store operations while single requests to the table fail
NextFailing ==
    \/ \E u \in Users, s \in Sessions, fail_at \in 0..1 :
          CreateHistoryFailing(u, s, fail_at)
    \/ \E hid \in HistIds, o \in Objs, fail_at \in 0..5 :
          StoreAddFailing(hid, o, fail_at)
    \/ \E hid \in HistIds, o \in Objs, fail_at \in 0..2, http \in BOOLEAN :
          StoreUpdateFailing(hid, o, fail_at, http)
    \/ \E hid \in HistIds, v \in BOOLEAN, fail_at \in 0..2 :
          ToggleVisibilityFailing(hid, v, fail_at)
    \/ \E hid \in HistIds, fail_at \in 0..2 : GetHistoryById(hid, fail_at)
    \/ \E visible_only \in BOOLEAN, limit \in 0..MaxLimit, fail_at \in 0..1 :
          GetAllHistory(visible_only, limit, fail_at)
    \/ \E u \in Users, visible_only \in BOOLEAN, fail_at \in 0..(MaxHist + 1) :
          GetUserHistory(u, visible_only, fail_at)
    \/ \E s \in Sessions, visible_only \in BOOLEAN, fail_at \in 0..(MaxHist + 1) :
          GetSessionHistory(s, visible_only, fail_at)

SpecFailing == Init /\ [][NextFailing]_vars

\* the same calls on a store of each mode
NextTwin ==
    \/ \E u \in Users, s \in Sessions : TwinCreate(u, s)
    \/ \E hid \in HistIds, o \in Objs : TwinAdd(hid, o)
    \/ \E hid \in HistIds, o \in Objs : TwinUpdate(hid, o)
    \/ \E hid \in HistIds, v \in BOOLEAN : TwinToggle(hid, v)
    \/ \E o \in Objs, ty \in {"transcribed", "closing"} : TwinMutate(o, ty)

SpecTwin == Init /\ [][NextTwin]_vars

\* one /submit_batch request
NextBatch ==
    \/ BatchSubmit
    \/ \E ty \in BatchEvents : BatchCallback(ty)
    \/ RunBatchReturn
    \/ RunBatchRaise
    \/ BatchConsume
    \/ BatchJoin

\* the client keeps reading the stream
SpecBatch == Init /\ [][NextBatch]_vars /\ WF_vars(BatchConsume)

\* calls of add_transcription_to_history on the table at the same time,
\* after the requests that created the Histories
NextCount ==
    \/ \E u \in Users, s \in Sessions : ops <= MaxPre /\ CreateHistory(u, s)
    \/ \E c \in Callers, hid \in HistIds : AddBegin(c, hid)
    \/ \E c \in Callers : AddCreate(c)
    \/ \E c \in Callers : AddRead(c)
    \/ \E c \in Callers : AddWrite(c)

SpecCount == Init /\ [][NextCount]_vars

\* the same with calls of toggle_history_visibility
NextVisible ==
    \/ ops < MaxPre /\ CreateHistory("u1", "s1")
    \/ \E c \in Callers, hid \in HistIds : AddBegin(c, hid)
    \/ \E c \in Callers : AddCreate(c)
    \/ \E c \in Callers : AddRead(c)
    \/ \E c \in Callers : AddWrite(c)
    \/ \E c \in Callers, hid \in HistIds, v \in BOOLEAN : ToggleRead(c, hid, v)
    \/ \E c \in Callers : ToggleWrite(c)

SpecVisible == Init /\ [][NextVisible]_vars

\* POST /submit of user u1 with a valid or an invalid model, a worker that
\* ends in any way and a client that may go away
NextPending ==
    \/ \E m \in {"llm", "bogus"}, s \in Sessions : Submit(m, "u1", s, 1, "wav", FALSE)
    \/ Dispatch
    \/ \E ty \in ProducerEvents : CallbackUpdate(1, ty)
    \/ CallbackPut(1)
    \/ WorkerReturn(1)
    \/ WorkerRaise(1)
    \/ Consume
    \/ Disconnect
    \/ JoinAndPersist

\* the server runs the generator and the worker thread as long as they can
\* take a step; nothing is assumed of the client
SpecPending ==
    /\ Init /\ [][NextPending]_vars
    /\ WF_vars(Dispatch)
    /\ WF_vars(CallbackPut(1))
    /\ WF_vars(WorkerReturn(1) \/ WorkerRaise(1)
                  \/ \E ty \in ProducerEvents : CallbackUpdate(1, ty))
    /\ WF_vars(Consume)
    /\ WF_vars(JoinAndPersist)

\* the helpers of main.py while single requests to the table fail
NextHelpers ==
    \/ \E u \in Users, s \in Sessions, fail_at \in 0..1 : MainAddHistory(u, s, fail_at)
    \/ \E hid \in HistIds, fail_at \in 0..2 : MainGetHistory(hid, fail_at)
    \/ \E hid \in HistIds, o \in Objs, fail_at \in 0..5 :
          MainAddTranscription(hid, o, fail_at)

SpecHelpers == Init /\ [][NextHelpers]_vars

\* calls of process_audio_chunk_direct one after the other: a call begins
\* when no other call is under way
NextReports ==
    \/ ImportLive(TRUE, FALSE)
    \/ \E p \in PushTasks, k \in LiveKeys :
          /\ \A r \in PushTasks \ {p} : task[r].pc \in {"idle", "returned"}
          /\ PushBegin(p, k, TRUE)
    \/ \E p \in PushTasks : PushStarted(p, TRUE)
    \/ \E p \in PushTasks, ok \in BOOLEAN : PushWritten(p, ok)
    \/ \E p \in PushTasks : PushRead(p)
    \/ \E p \in PushTasks : PushFilter(p)
    \/ \E p \in PushTasks : PushAssign(p)
    \/ \E s \in 1..MaxSessions : Recognized(s)
    \/ \E t \in 1..MaxTime : Tick(t)

SpecReports == Init /\ [][NextReports]_vars

\* one /ws/transcribe connection from accept to close
NextConn ==
    \/ \E send_ok \in BOOLEAN : WsAccept(send_ok)
    \/ \E m \in Messages : WsReceive(m)
    \/ \E send_ok \in BOOLEAN : WsResults(send_ok)
    \/ \E send_ok \in BOOLEAN : WsExcept(send_ok)
    \/ WsFinally
    \/ WsLateChunk

SpecConn == Init /\ [][NextConn]_vars

(***************************************************************************)
(* Properties of the /submit stream.                                       *)
(***************************************************************************)
\* the events the client has received
Delivered == [i \in 1..Len(yielded) |-> EventOfFrame(yielded[i])]

RECURSIVE Texts(_)
\* the texts of the text-carrying events (transcribed, transcript) of es, in order
Texts(es) ==
    IF es = <<>> THEN <<>>
    ELSE IF Head(es).event_type \in {"transcribed", "transcript"}
         THEN <<Head(es).text>> \o Texts(Tail(es))
         ELSE Texts(Tail(es))

\* the texts of the chunks of a Transcription, in order
ChunkTexts(t) == [i \in 1..Len(t.transcript_chunks) |-> t.transcript_chunks[i].text]

\* index of the first event of es whose type is in S, 0 when there is none
FirstOf(es, S) ==
    IF \E i \in 1..Len(es) : es[i].event_type \in S
    THEN CHOOSE i \in 1..Len(es) :
            /\ es[i].event_type \in S
            /\ \A j \in 1..(i - 1) : es[j].event_type \notin S
    ELSE 0

\* C1: the status of the Transcription of a /submit request never goes from
\* completed or failed back to pending, and once it is failed no later event
\* changes it.
C1_StatusMonotone ==
    [][transcription_record # 0 /\ transcription_record' = transcription_record =>
          LET before == heap[transcription_record].status
              after == heap'[transcription_record].status
          IN  /\ before \in {"completed", "failed"} => after # "pending"
              /\ before = "failed" => after = "failed"]_vars

\* C2: with a single producing worker the client receives the events passed
\* to callback in the same order, none lost, none twice, one per frame; every
\* event put on the queue is either delivered or still queued; nothing is
\* delivered after the first closing or session_stopped event, and when the
\* loop has ended the client has every event up to and including that one.
C2_StreamOrder ==
    NumThreads(req.model, req.channels) = 1 =>
        /\ IsPrefix(Delivered, called)
        /\ Delivered \o q = putlog
        /\ \A i \in 1..(Len(Delivered) - 1) : Delivered[i].event_type \notin StreamEnd
        /\ pc \in {"joining", "done"} =>
              /\ FirstOf(called, StreamEnd) # 0
              /\ Delivered = SubSeq(called, 1, FirstOf(called, StreamEnd))

C2_Witness ==
    /\ NumThreads(req.model, req.channels) = 1
    /\ pc = "done"
    /\ Len(Delivered) = 3
    /\ Delivered[1].event_type = "transcribed"
    /\ Delivered[2].event_type = "error"

\* C3: whatever the interleaving of the callback invocations, once every
\* invocation has returned the chunks of the Transcription are in the order
\* in which their events were put on the queue, and none is missing.
C3_ChunkOrder ==
    (transcription_record # 0 /\ \A t \in Threads : worker[t].pc # "put") =>
        ChunkTexts(heap[transcription_record]) = Texts(putlog)

\* C4: after the generator has yielded a closing, session_stopped or error
\* event it reads no further event from the queue: that event is the last one
\* yielded and the loop has ended.
C4_StopAfterTerminal ==
    \A i \in 1..Len(Delivered) :
        Delivered[i].event_type \in Terminal => i = Len(Delivered) /\ pc # "waiting"

\* C5: when the backend worker has terminated with an exception without
\* having emitted a terminal event, an error event is emitted on the stream.
C5_ErrorOnCrash ==
    (AllTerminated /\ \E t \in Threads : worker[t].pc = "crashed") =>
        \E i \in 1..Len(called) : called[i].event_type \in Terminal

\* C8: for a model that is not llm, whisper or msft no backend worker thread
\* is ever started.
C8_NoWorkerForInvalidModel ==
    req.model \notin ValidModels => \A t \in Threads : worker[t].pc = "unstarted"

C8_Witness ==
    /\ pc = "raised"
    /\ req.model = "bogus"
    /\ \A t \in Threads : worker[t].pc = "unstarted"

(***************************************************************************)
(* Properties of /submit and the history.                                  *)
(***************************************************************************)
\* getSessionHistory(S) returns a History of the submitting user and of
\* session S that holds the Transcription of the request with that content
SubmitStored(status, chunks) ==
    LET hs == get_session_history(use_azure_tables, World, req.session_id, FALSE)
    IN  \E i \in 1..Len(hs) :
           /\ hs[i].user_id = req.user_id
           /\ hs[i].session_id = req.session_id
           /\ \E j \in 1..Len(hs[i].transcriptions) :
                 hs[i].transcriptions[j] =
                     [id |-> heap[transcription_record].id, status |-> status,
                      transcript_chunks |-> chunks,
                      timestamp |-> heap[transcription_record].timestamp]

\* the worker emitted n transcribed events followed by closing or session_stopped
TranscribedThenEnd ==
    /\ called # <<>>
    /\ called[Len(called)].event_type \in StreamEnd
    /\ \A i \in 1..(Len(called) - 1) : called[i].event_type = "transcribed"

\* C6: for a /submit with model llm, user U and session S a Transcription is
\* first stored with status pending; when the worker emitted n transcribed
\* events followed by closing or session_stopped and the stream has ended,
\* getSessionHistory(S) returns a History for (U, S) that holds the
\* Transcription with status completed and the n chunks in emission order.
C6_EndToEnd ==
    (req.model = "llm" /\ transcription_record # 0) =>
        /\ pc = "prepared" => SubmitStored("pending", <<>>)
        /\ (pc = "done" /\ TranscribedThenEnd) =>
              SubmitStored("completed",
                  [i \in 1..(Len(called) - 1) |->
                      [event_type |-> "transcribed", text |-> called[i].text]])

\* C7: a /submit whose model is missing or not llm, whisper or msft is
\* rejected with the store unchanged: neither the handler nor the generator
\* that raises creates a History or adds a Transcription.
C7_RejectedLeavesStore ==
    [][(/\ req'.model \notin ValidModels
        /\ \/ pc = "idle" /\ pc' = "prepared"
           \/ pc = "prepared" /\ pc' = "raised")
       => UNCHANGED <<memory_history, memory_transcriptions, table>>]_vars

(***************************************************************************)
(* Properties of the store operations.                                     *)
(***************************************************************************)
\* the History lastOp worked on holds a Transcription equal to the object
\* lastOp was called with: same id, status and transcript_chunks
StoredLast ==
    LET h == get_history_by_id(use_azure_tables, World, lastOp.history_id)
    IN  \E j \in 1..Len(h.transcriptions) : h.transcriptions[j] = heap[lastOp.obj]

\* lastOp is an updateTranscription(h, t) whose t was last added to h
UpdateOfAdded ==
    /\ lastOp.op = "update"
    /\ <<lastOp.obj, lastOp.history_id>> \in addedTo

\* C9: addTranscription(h, t) on an existing History followed by
\* updateTranscription(h, t) with the id written into t returns true, and
\* afterwards the stored Transcription has the status and chunks of t.
C9_AddThenUpdate ==
    [][(lastOp'.seq # lastOp.seq /\ UpdateOfAdded') =>
          (lastOp'.result /\ StoredLast')]_vars

C9_Witness ==
    /\ UpdateOfAdded
    /\ lastOp.result
    /\ use_azure_tables
    /\ heap[lastOp.obj].transcript_chunks # <<>>
    /\ StoredLast

\* C10: updateTranscription with a Transcription whose id is unassigned
\* returns false without any access to the store, and leaves every stored
\* History and Transcription unchanged.
C10_UpdateWithoutId ==
    [][(lastOp'.seq # lastOp.seq /\ lastOp'.op = "update"
            /\ lastOp'.id_before = NoId) =>
          /\ ~lastOp'.result
          /\ lastOp'.accesses = 0
          /\ UNCHANGED <<memory_history, memory_transcriptions, table>>
          /\ \A o \in 1..Len(heap) : heap'[o] = heap[o]]_vars

C10_Witness ==
    /\ lastOp.op = "update"
    /\ lastOp.id_before = NoId
    /\ ~lastOp.result
    /\ addedTo # {}

(***************************************************************************)
(* Two update_transcription calls at the same time.                        *)
(***************************************************************************)
StoredFields(e) == <<e.status, JsonLoads(e.transcript_chunks), e.timestamp>>

SubmittedFields(t) == <<t.status, t.transcript_chunks, t.timestamp>>

\* both calls have returned, they were for the same existing row, and no
\* request of either failed
SameRowCalls ==
    /\ \A c \in Callers : upd[c].pc = "returned" /\ upd[c].faults = 0
    /\ upd[1].history_id = upd[2].history_id
    /\ upd[1].t.id = upd[2].t.id
    /\ GetEntity(table, upd[1].history_id, upd[1].t.id) # {}

\* C11: when two update_transcription calls run at the same time on the same
\* Transcription id in table mode, both return true and the stored status,
\* transcript_chunks and timestamp are those of one of the two calls, never
\* a mixture.
C11_ConcurrentUpdates ==
    SameRowCalls =>
        /\ \A c \in Callers : upd[c].ret
        /\ \A e \in GetEntity(table, upd[1].history_id, upd[1].t.id) :
              \E c \in Callers : StoredFields(e) = SubmittedFields(upd[c].t)

\* the two calls overlapped (one wrote over the row the other had read) and
\* submitted states that differ in every field
C11_Witness ==
    /\ SameRowCalls
    /\ \E c \in Callers : upd[c].conflicts > 0
    /\ upd[1].t.status # upd[2].t.status
    /\ upd[1].t.transcript_chunks # upd[2].t.transcript_chunks
    /\ upd[1].t.timestamp # upd[2].t.timestamp

\* C12: a call all of whose writes met a concurrency conflict (the row was
\* replaced between its read and its write) makes exactly 3 read-then-write
\* attempts, sleeps 100ms and 200ms between them, and returns false.
C12_ThreeAttemptsOnConflict ==
    \A c \in Callers :
        (/\ upd[c].pc = "returned"
         /\ upd[c].faults = 0
         /\ upd[c].writes > 0
         /\ upd[c].conflicts = upd[c].writes)
        => (/\ upd[c].writes = max_retries
            /\ upd[c].sleeps = <<100, 200>>
            /\ ~upd[c].ret)

\* no call makes a 4th attempt, whatever fails
NoFourthAttempt ==
    \A c \in Callers : upd[c].attempt < max_retries /\ Len(upd[c].sleeps) < max_retries

(***************************************************************************)
(* Visibility.                                                             *)
(***************************************************************************)
\* C13: toggle_history_visibility(id, v) returns false and changes nothing
\* when no History has that id; when the History exists it returns true and
\* the next get_history_by_id(id) returns a record whose visible equals v.
C13_ToggleVisibility ==
    [][\A hid \in HistIds, v \in BOOLEAN :
          ToggleVisibility(hid, v) =>
              IF get_history_by_id(use_azure_tables, World, hid) = NoHistory
              THEN /\ ~lastOp'.result
                   /\ UNCHANGED <<memory_history, memory_transcriptions, table, heap>>
              ELSE /\ lastOp'.result
                   /\ get_history_by_id(use_azure_tables, World', hid).id = hid
                   /\ get_history_by_id(use_azure_tables, World', hid).visible = v]_vars

\* a History has been hidden by a toggle that returned true
C13_Witness ==
    /\ lastOp.op = "toggle"
    /\ lastOp.result
    /\ get_history_by_id(use_azure_tables, World, lastOp.history_id) # NoHistory
    /\ ~get_history_by_id(use_azure_tables, World, lastOp.history_id).visible

(***************************************************************************)
(* The id of a Transcription.                                              *)
(***************************************************************************)
\* C14: add_transcription_to_history(history_id, t) returns false when no
\* History with history_id exists; when it returns true, t.id is set and
\* differs from the id of every other Transcription object and of every row
\* that was in the store.
C14_AddAssignsUniqueId ==
    [][\A hid \in HistIds, o \in Objs :
          StoreAdd(hid, o) =>
              /\ get_history_by_id(use_azure_tables, World, hid) = NoHistory
                    => ~lastOp'.result
              /\ lastOp'.result =>
                    /\ heap'[o].id # NoId
                    /\ \A o2 \in (1..Len(heap')) \ {o} : heap'[o2].id # heap'[o].id
                    /\ \A e \in table : e.RowKey # heap'[o].id
                    /\ use_azure_tables =>
                          GetEntity(table', hid, heap'[o].id) # {}]_vars

\* an add returned true while another Transcription already had an id
C14_Witness ==
    /\ lastOp.op = "add"
    /\ lastOp.result
    /\ \E o2 \in (1..Len(heap)) \ {lastOp.obj} : heap[o2].id # NoId

\* C15: once a Transcription has an id, no later step assigns it a different
\* one, a second add_transcription_to_history of the same object included.
C15_IdAssignedOnce ==
    [][\A o \in 1..Len(heap) :
          heap[o].id # NoId => heap'[o].id = heap[o].id]_vars

(***************************************************************************)
(* Live sessions.                                                          *)
(***************************************************************************)
\* the sessions of key k whose recognizer was started since the last cleanup
\* of k
StartedSince(k) ==
    {s \in 1..Len(sessions) :
        sessions[s].key = k /\ sessions[s].live /\ sessions[s].started}

\* C16: for any interleaving of process_audio_chunk_direct calls on one
\* session key, a recognizer is constructed and started at most once for
\* that key between two cleanups.
C16_OneRecognizerPerKey ==
    \A k \in LiveKeys : Cardinality(StartedSince(k)) <= 1

\* C18: cleanup_session on a key that is not in the registry changes nothing
\* and does not raise; on a key that is present the key is absent when the
\* cleanup returns, also when the stop or the close raised; a second cleanup
\* of the same key is then a call on an absent key.
C18_CleanupRemoves ==
    [][/\ \A k \in LiveKeys :
             (CleanupBegin(k) /\ active_sessions[k] = 0) =>
                 /\ cleanup'.pc = "returned"
                 /\ ~cleanup'.raised
                 /\ UNCHANGED <<active_sessions, sessions>>
       /\ \A stop_ok \in BOOLEAN, close_ok \in BOOLEAN :
             CleanupEnd(stop_ok, close_ok) =>
                 /\ cleanup'.pc = "returned"
                 /\ ~cleanup'.raised
                 /\ active_sessions'[cleanup.key] = 0]_vars

\* a cleanup whose stop raised has removed the key, and a second cleanup of
\* that key has returned without doing anything
C18_Witness ==
    /\ cleanup.pc = "returned"
    /\ cleanup.calls = 2
    /\ cleanup.noop
    /\ \E s \in 1..Len(sessions) :
          /\ sessions[s].key = cleanup.key
          /\ sessions[s].started /\ ~sessions[s].stopped /\ ~sessions[s].live

\* C19: without credentials process_audio_chunk_direct returns success =
\* false, creates no registry entry and starts no recognizer; and whatever
\* raises inside a call, the call returns a result with success = false.
C19_NoCredentials ==
    /\ (env.loaded /\ ~env.speech_key /\ ~env.client_id) =>
          /\ sessions = <<>>
          /\ \A k \in LiveKeys : active_sessions[k] = 0
          /\ \A p \in PushTasks :
                /\ task[p].pc \in {"idle", "returned"}
                /\ task[p].pc = "returned" => ~task[p].result.success
    /\ \A p \in PushTasks :
          task[p].failed => task[p].pc = "returned" /\ ~task[p].result.success

\* a call without credentials has returned
C19_Witness ==
    /\ env.loaded /\ ~env.speech_key /\ ~env.client_id
    /\ \E p \in PushTasks : task[p].pc = "returned" /\ task[p].calls = 1

\* C20: when a process_audio_chunk_direct call returns with success, the
\* result buffer of its session holds no entry more than 30s older than the
\* time of the read, and the reported results are exactly the entries the
\* buffer held at the read that are at most 5s old at that time.
C20_Windows ==
    [][\A p \in PushTasks :
          PushAssign(p) =>
              LET buffer == sessions'[task[p].session].results
                  ct == task[p].current_time
              IN  /\ task'[p].result.success
                  /\ \A i \in 1..Len(buffer) : ct - buffer[i].timestamp <= KeepWindow
                  /\ task'[p].result.results =
                        SelectSeq(buffer, LAMBDA r : /\ r.id <= task[p].mark
                                                     /\ ct - r.timestamp <= RecentWindow)]_vars

\* a call has reported a result and has kept, without reporting it, a result
\* that was exactly 30s old at the read
C20_Witness ==
    \E p \in PushTasks :
        LET buffer == sessions[task[p].session].results
        IN  /\ task[p].pc = "returned"
            /\ task[p].result.results # <<>>
            /\ \E i \in 1..Len(buffer) :
                  task[p].current_time - buffer[i].timestamp = KeepWindow

(***************************************************************************)
(* The handler of a /ws/transcribe connection.                             *)
(***************************************************************************)
\* C17: get_results returns every result appended since the previous drain,
\* in append order, and leaves the queue empty; results of two pushes with no
\* drain in between come out of one drain; no result is returned twice.
\* Results are numbered in append order: what the drains have returned, what
\* the running drain holds and what is queued is always 1..appended in this
\* order, and a drain that has returned has returned everything appended
\* before it was called.
C17_DrainAll ==
    /\ drained \o drain.results \o handler.results_queue =
          [i \in 1..appended |-> i]
    /\ drain.pc = "idle" =>
          /\ Len(drained) >= drain.mark
          /\ Len(drain.last) <= Len(drained)
          /\ \A i \in 1..Len(drain.last) :
                drain.last[i] = Len(drained) - Len(drain.last) + i

\* the mock handler has appended a result on the 10th and on the 20th chunk
\* with no drain in between, and one drain has returned both
C17_Witness ==
    /\ handler.kind = "simple"
    /\ handler.chunk_count = 2 * MockEvery
    /\ drain.pc = "idle"
    /\ drain.last = <<2, 3>>
    /\ handler.results_queue = <<>>

(***************************************************************************)
(* Properties of the read operations of the store.                         *)
(***************************************************************************)
\* a result of get_all_history as the claim describes it
ShallowNewestFirst(r, visible_only, limit) ==
    /\ Len(r) <= limit
    /\ \A i \in 1..Len(r) :
          /\ r[i].transcriptions = <<>>
          /\ visible_only => r[i].visible
          /\ \A j \in (i + 1)..Len(r) : r[i].timestamp >= r[j].timestamp

\* C21: in both storage modes get_all_history(visible_only, limit) returns at
\* most limit History records, newest first by creation time, each with an
\* empty list of transcriptions, and only visible ones when visible_only.
C21_GetAllHistory ==
    \A visible_only \in BOOLEAN, limit \in 0..MaxLimit :
       ShallowNewestFirst(get_all_history(use_azure_tables, World, visible_only, limit),
                          visible_only, limit)

\* the same in table mode only
C21_TableMode ==
    use_azure_tables =>
       \A visible_only \in BOOLEAN, limit \in 0..MaxLimit :
          ShallowNewestFirst(get_all_history(TRUE, World, visible_only, limit),
                             visible_only, limit)

(***************************************************************************)
(* Properties of /submit and the History of its session.                   *)
(***************************************************************************)
\* the History records of the store, whatever the mode: id, session, time
StoredHistories(azure, w) ==
    IF ~azure
    THEN {[id |-> w.mh[i].id, session_id |-> w.mh[i].session_id,
           timestamp |-> w.mh[i].timestamp] : i \in 1..Len(w.mh)}
    ELSE {[id |-> e.PartitionKey, session_id |-> e.session_id,
           timestamp |-> e.timestamp] : e \in {x \in w.tbl : x.entity_type = "history"}}

\* the most recently created of a non-empty set of History records
MostRecent(hs) == CHOOSE h \in hs : \A g \in hs : h.timestamp >= g.timestamp

\* the step of /submit that prepares a request with user_id and session_id
SubmitWithSession ==
    /\ pc = "idle" /\ pc' = "prepared"
    /\ req'.user_id # None /\ req'.session_id # None

\* what the claim says of such a step
AttachedToCurrent ==
    LET before == StoredHistories(use_azure_tables, World)
        after == StoredHistories(use_azure_tables, World')
        mine == {h \in before : h.session_id = req'.session_id}
        view == get_history_by_id(use_azure_tables, World', history_record')
    IN  /\ \E i \in 1..Len(view.transcriptions) :
              view.transcriptions[i].id = heap'[transcription_record'].id
        /\ IF mine # {}
           THEN history_record' = MostRecent(mine).id /\ after = before
           ELSE /\ history_record' \notin {h.id : h \in before}
                /\ {h.id : h \in after} = {h.id : h \in before} \cup {history_record'}

\* C22: /submit with user_id and session_id attaches the new Transcription to
\* the most recently created History of that session_id, visible or hidden,
\* and creates no History; it creates one only when the session has none.
C22_CurrentHistory == [][SubmitWithSession => AttachedToCurrent]_vars

\* the same in memory mode only
C22_MemoryMode == [][SubmitWithSession /\ ~use_azure_tables => AttachedToCurrent]_vars

(***************************************************************************)
(* Properties of the store when the backend fails.                         *)
(***************************************************************************)
ReadOps == {"get_history_by_id", "get_all_history", "get_user_history",
            "get_session_history"}

WriteOps == {"create", "add", "update", "toggle"}

\* C23: no store operation raises when the backend fails: a read whose
\* request fails returns absent or an empty list, a write returns an
\* explicit result.
C23_NeverRaises ==
    /\ ~outcome.raised
    /\ use_azure_tables /\ outcome.fail_at = 1 /\ outcome.op \in ReadOps
          => outcome.answer \in {"none", "empty"}
    /\ outcome.op \in WriteOps => outcome.answer \in {"value", "true", "false"}

\* every operation but add_history_record returns when a request fails
C23_OnlyCreateRaises ==
    /\ outcome.raised => outcome.op = "create"
    /\ use_azure_tables /\ outcome.fail_at = 1 /\ outcome.op \in ReadOps
          => outcome.answer \in {"none", "empty"}
    /\ outcome.op \in WriteOps \ {"create"} => outcome.answer \in {"true", "false"}

SameReturns ==
    /\ twin.ret_mem = twin.ret_tab
    /\ twin.mem.heap = twin.tab.heap

\* every read returns the same from both stores
SameReads ==
    /\ \A hid \in HistIds :
          get_history_by_id(FALSE, twin.mem, hid) = get_history_by_id(TRUE, twin.tab, hid)
    /\ \A s \in Sessions, visible_only \in BOOLEAN :
          get_session_history(FALSE, twin.mem, s, visible_only)
             = get_session_history(TRUE, twin.tab, s, visible_only)
    /\ \A u \in Users, visible_only \in BOOLEAN :
          get_user_history(FALSE, twin.mem, u, visible_only)
             = get_user_history(TRUE, twin.tab, u, visible_only)

\* C25: after every sequence of create, add, update and toggle calls the
\* in-memory store and the table store have returned the same results and
\* return the same from get_history_by_id, get_session_history and
\* get_user_history, the order of the Transcriptions and their ids included.
C25_ModesEquivalent == SameReturns /\ SameReads

(***************************************************************************)
(* Properties of the end of the /submit stream.                            *)
(***************************************************************************)
\* the step in which event_stream leaves t.join() and updates the history
PersistStep == pc = "joining" /\ pc' = "done"

\* the stored Transcriptions of /submit's History that carry the id of
\* transcription_record, as get_history_by_id returns them after the step
PersistedRecords ==
    LET h == get_history_by_id(use_azure_tables, World', history_record)
    IN  {h.transcriptions[i] : i \in
            {k \in 1..Len(h.transcriptions) :
                h.transcriptions[k].id = heap[transcription_record].id}}

\* C26: update_transcription is invoked by /submit only in the step after
\* the closing or session_stopped event was yielded and the worker threads
\* have terminated; what it stores is the Transcription as it is then, with
\* a chunk for every text event the workers passed to callback, those passed
\* after the end event was put on the queue included.
C26_PersistAfterJoin ==
    [][/\ (lastOp'.seq # lastOp.seq /\ lastOp'.op = "update") => PersistStep
       /\ PersistStep =>
             /\ Delivered # <<>>
             /\ Delivered[Len(Delivered)].event_type \in StreamEnd
             /\ AllTerminated
             /\ (history_record # NoId /\ transcription_record # 0) =>
                   /\ lastOp'.op = "update" /\ lastOp'.result
                   /\ ChunkTexts(heap[transcription_record]) = Texts(called)
                   /\ PersistedRecords # {}
                   /\ \A t \in PersistedRecords :
                         /\ t.status = heap[transcription_record].status
                         /\ t.transcript_chunks =
                               heap[transcription_record].transcript_chunks]_vars

\* a table row updated with a chunk that was appended after the end event
C26_Witness ==
    /\ use_azure_tables
    /\ pc = "done"
    /\ lastOp.op = "update" /\ lastOp.result
    /\ Len(called) = 2
    /\ called[1].event_type = "closing"
    /\ called[2].event_type = "transcribed"
    /\ \E e \in table : /\ e.RowKey = heap[transcription_record].id
                         /\ Len(e.transcript_chunks) = 1

(***************************************************************************)
(* Properties of the producing side of the queue.                          *)
(***************************************************************************)
\* C27: a callback invocation never waits for the consumer: whatever the
\* generator and the client do, every invocation that has updated the record
\* puts its event and returns, and every started worker thread terminates.
C27_ProducerNeverBlocks ==
    \A t \in Threads :
       /\ (worker[t].pc = "put") ~> (worker[t].pc # "put")
       /\ (worker[t].pc \in {"running", "put"}) ~> (worker[t].pc \in {"done", "crashed"})

\* the client went away before it read anything, and the worker has put all
\* its events and returned
C27_Witness ==
    /\ pc = "disconnected"
    /\ yielded = <<>>
    /\ Len(q) = MaxEvents
    /\ worker[1].pc = "done"

(***************************************************************************)
(* Properties of the /submit_batch stream.                                 *)
(***************************************************************************)
\* the events the client of /submit_batch has received
BatchDelivered == [i \in 1..Len(batch.yielded) |-> EventOfFrame(batch.yielded[i])]

RECURSIVE StatusEvents(_)
\* the events of es that are not transcribed_batch, in order
StatusEvents(es) ==
    IF es = <<>> THEN <<>>
    ELSE IF Head(es).event_type # "transcribed_batch"
         THEN <<Head(es)>> \o StatusEvents(Tail(es))
         ELSE StatusEvents(Tail(es))

\* the positions of the transcribed_batch events of es
BatchPositions(es) == {i \in 1..Len(es) : es[i].event_type = "transcribed_batch"}

\* the stream so far: status events in emission order, and a
\* transcribed_batch event only as the last one, after every status event
BatchStreamOrder ==
    /\ IsPrefix(StatusEvents(BatchDelivered), StatusEvents(batch.emitted))
    /\ Cardinality(BatchPositions(BatchDelivered)) <= 1
    /\ BatchPositions(BatchDelivered) # {} =>
          /\ BatchPositions(BatchDelivered) = {Len(BatchDelivered)}
          /\ batch.pc \in {"joining", "done"}
          /\ StatusEvents(BatchDelivered) = StatusEvents(batch.emitted)
          /\ BatchDelivered[Len(BatchDelivered)] \in
                IF BatchPositions(batch.emitted) = {} THEN {EmptyBatch}
                ELSE {batch.emitted[i] : i \in BatchPositions(batch.emitted)}
    /\ batch.pc \in {"joining", "done"} => BatchPositions(BatchDelivered) # {}

\* C28: the stream of /submit_batch carries the driver's status events in
\* emission order and then exactly one transcribed_batch event, the last of
\* the stream, with empty results when the driver produced none; it is
\* delivered whenever the driver has returned normally.
C28_BatchStream ==
    /\ []BatchStreamOrder
    /\ (batch.thread = "done") ~> (BatchPositions(BatchDelivered) # {})

\* two status events and then the empty final event of a driver that
\* produced no result
C28_Witness ==
    /\ batch.pc = "done"
    /\ Len(BatchDelivered) = 3
    /\ BatchDelivered[1].event_type = "batch_status"
    /\ BatchDelivered[2].event_type = "batch_status"
    /\ BatchDelivered[3] = EmptyBatch

(***************************************************************************)
(* Properties of callback's changes of the Transcription.                  *)
(***************************************************************************)
\* a step in which callback was entered with an event of a type in S while
\* the request has a transcription_record
CallbackOn(S) ==
    /\ transcription_record # 0
    /\ Len(called') = Len(called) + 1
    /\ called'[Len(called')].event_type \in S

\* C29: a closing or session_stopped event sets status to completed exactly
\* when status is pending; on a completed or failed Transcription it changes
\* neither status nor chunks, so a repeated event changes nothing more.
C29_ClosingIdempotent ==
    [][CallbackOn(StreamEnd) =>
          LET before == heap[transcription_record]
              after == heap'[transcription_record]
              e == called'[Len(called')]
          IN  /\ after.status # before.status <=> before.status = "pending"
              /\ before.status = "pending" => after.status = "completed"
              /\ after.transcript_chunks = before.transcript_chunks
              /\ before.status \in {"completed", "failed"} => after = before
              /\ ApplyEvent(after, e) = after]_vars

\* a failed Transcription that has since seen two end events
C29_Witness ==
    /\ transcription_record # 0
    /\ Len(called) = 3
    /\ called[1].event_type = "error"
    /\ called[2].event_type = "closing"
    /\ called[3].event_type = "session_stopped"
    /\ heap[transcription_record].status = "failed"

\* C30: a transcribed event appends exactly one chunk at the end of
\* transcript_chunks and leaves status and the earlier chunks as they were;
\* no event of any type removes or reorders chunks.
C30_AppendOnly ==
    [][/\ CallbackOn({"transcribed"}) =>
             LET before == heap[transcription_record]
                 after == heap'[transcription_record]
                 e == called'[Len(called')]
             IN  /\ Len(after.transcript_chunks) = Len(before.transcript_chunks) + 1
                 /\ after.transcript_chunks[Len(after.transcript_chunks)].text = e.text
                 /\ SubSeq(after.transcript_chunks, 1, Len(before.transcript_chunks))
                       = before.transcript_chunks
                 /\ after.status = before.status
       /\ (transcription_record # 0 /\ transcription_record' = transcription_record) =>
             IsPrefix(heap[transcription_record].transcript_chunks,
                      heap'[transcription_record].transcript_chunks)]_vars

\* a second transcribed event, after an error, appended behind the first
C30_Witness ==
    /\ transcription_record # 0
    /\ Len(called) = 3
    /\ called[1].event_type = "transcribed"
    /\ called[2].event_type = "error"
    /\ called[3].event_type = "transcribed"
    /\ ChunkTexts(heap[transcription_record]) = <<1, 3>>
    /\ heap[transcription_record].status = "failed"

(***************************************************************************)
(* Properties of concurrent calls on one History in table mode.            *)
(***************************************************************************)
\* no call of add or toggle is under way
Quiescent == \A c \in Callers : call[c].pc \in {"idle", "returned"}

TranscriptionRows(hid) ==
    {e \in table : e.PartitionKey = hid /\ e.entity_type = "transcription"}

\* C31: in table mode, whenever no add is under way, the transcription_count
\* of every metadata row equals the number of Transcription rows of its
\* partition, whatever the interleaving of the adds has been.
C31_CountMatchesRows ==
    use_azure_tables /\ Quiescent =>
        \A e \in table : e.entity_type = "history" =>
            e.transcription_count = Cardinality(TranscriptionRows(e.PartitionKey))

\* what holds under every interleaving: the count never exceeds the rows
C31_CountAtMostRows ==
    \A e \in table : e.entity_type = "history" =>
        e.transcription_count <= Cardinality(TranscriptionRows(e.PartitionKey))

\* caller c has made one call, a toggle that returned True, and caller d
\* one call, an add on the same History, and both have completed
ToggleAndAdd(c, d) ==
    /\ c # d
    /\ call[c].op = "toggle" /\ call[c].pc = "returned" /\ call[c].ret
    /\ call[c].calls = 1
    /\ call[d].op = "add" /\ call[d].pc = "returned"
    /\ call[d].calls = 1
    /\ call[d].history_id = call[c].history_id

\* C32: in table mode, once a toggle_history_visibility(id, v) that returned
\* True and an add on the same History running at the same time have both
\* completed, the visible field of the History is v.
C32_ToggleSurvivesAdd ==
    \A c, d \in Callers :
        ToggleAndAdd(c, d) =>
            \A e \in GetEntity(table, call[c].history_id, MainRow) :
                e.visible = call[c].visible

\* what the toggle guarantees: its value is in the row when it returns
C32_VisibleAtReturn ==
    [][\A c \in Callers :
          call[c].pc = "toggling" /\ call'[c].pc = "returned" =>
             \A e \in GetEntity(table', call[c].history_id, MainRow) :
                 e.visible = call[c].visible]_vars

(***************************************************************************)
(* Properties of a failed add.                                             *)
(***************************************************************************)
\* a call of add_transcription_to_history that returns False
AddReturnsFalse ==
    ops' = ops + 1 /\ outcome'.op = "add" /\ outcome'.answer = "false"

\* the ids of the Transcription objects are as they were
IdsUnchanged ==
    /\ \A o \in DOMAIN heap : heap'[o].id = heap[o].id
    /\ \A o \in (DOMAIN heap') \ (DOMAIN heap) : heap'[o].id = NoId

StoreUnchanged ==
    /\ table' = table
    /\ memory_history' = memory_history
    /\ memory_transcriptions' = memory_transcriptions

\* C33: an add that returns False leaves the store and the Transcription
\* as they were: no row or list entry for the call, the id unchanged.
C33_FailedAddChangesNothing ==
    [][AddReturnsFalse => StoreUnchanged /\ IdsUnchanged]_vars

\* the same for the adds whose requests to the backend all succeed
C33_WithoutBackendFailure ==
    [][AddReturnsFalse /\ outcome'.fail_at = 0 => StoreUnchanged /\ IdsUnchanged]_vars

\* a failed add never removes or changes what the store held
C33_FailedAddKeepsRows ==
    [][AddReturnsFalse =>
          /\ table \subseteq table'
          /\ memory_history' = memory_history
          /\ memory_transcriptions' = memory_transcriptions]_vars

(***************************************************************************)
(* Properties of /submit across users.                                     *)
(***************************************************************************)
\* the History that holds the Transcription of the request just prepared
AttachedHistory == get_history_by_id(use_azure_tables, World', history_record')

AttachedByStep ==
    \E i \in 1..Len(AttachedHistory.transcriptions) :
        AttachedHistory.transcriptions[i].id = heap'[transcription_record'].id

\* C34: when /submit with user_id U and session_id S attaches a Transcription
\* to a History, the user_id of that History is U.
C34_OwnHistoryOnly ==
    [][SubmitWithSession /\ AttachedByStep
          => AttachedHistory.user_id = req'.user_id]_vars

\* what the lookup guarantees: the History has the session_id of the request
C34_SameSession ==
    [][SubmitWithSession /\ AttachedByStep
          => AttachedHistory.session_id = req'.session_id]_vars

(***************************************************************************)
(* Properties of the status /submit leaves in the store.                   *)
(***************************************************************************)
\* the Transcription of the request as the store returns it
StoredOfRequest ==
    IF transcription_record = 0 THEN {}
    ELSE LET h == get_history_by_id(use_azure_tables, World, history_record)
         IN  {h.transcriptions[i] : i \in {j \in 1..Len(h.transcriptions) :
                 h.transcriptions[j].id = heap[transcription_record].id}}

StoredPending == \E t \in StoredOfRequest : t.status = "pending"

StoredTerminal ==
    /\ StoredOfRequest # {}
    /\ \A t \in StoredOfRequest : t.status \in {"completed", "failed"}

\* C35: a Transcription that /submit has stored with status pending is
\* eventually stored with status completed or failed, whether the request
\* was accepted or rejected, however the worker ends, and whether or not
\* the client stays connected.
C35_EventuallyTerminal == StoredPending ~> StoredTerminal

\* the stream of the request got its end event and the client read it
StreamEnded == pc \in {"joining", "done"}

\* what the generator guarantees: the stored status is terminal once the
\* stream has ended with closing or session_stopped
C35_TerminalAfterStreamEnd == StreamEnded ~> (pc = "done" /\ StoredTerminal)

\* the worker thread has ended and has passed no closing or session_stopped
\* event to the callback
EndedWithoutEndEvent ==
    /\ Started # {} /\ AllTerminated
    /\ \A i \in 1..Len(called) : called[i].event_type \notin StreamEnd

\* the cases in which the status does become terminal: the request was
\* accepted, the client stays connected and the worker emits an end event
C35_UnlessAbandoned ==
    StoredPending ~> \/ StoredTerminal
                     \/ pc \in {"raised", "disconnected"}
                     \/ EndedWithoutEndEvent

(***************************************************************************)
(* Properties of the helpers of main.py.                                   *)
(***************************************************************************)
\* C36: every History that main.add_history_record has returned, one built
\* by its fallback included, is returned by a later main.get_history_by_id
\* with its id, and main.add_transcription_to_history on its id returns
\* True.  The later call is one whose requests to the store all succeed.
C36_ReturnedIsFound ==
    (app.probe.op \in {"get", "add"} /\ app.probe.id \in app.made
        /\ app.probe.fail_at = 0) => app.probe.ok

\* the same for the History records the store itself returned
C36_StoredIsFound ==
    (app.probe.op \in {"get", "add"} /\ app.probe.id \in app.made \ app.fallback
        /\ app.probe.fail_at = 0) => app.probe.ok

(***************************************************************************)
(* Properties of the order of update and enqueue in the callback.          *)
(***************************************************************************)
\* the generator takes the oldest event from the queue
Dequeue ==
    /\ pc = "waiting" /\ q # <<>>
    /\ q' = Tail(q)
    /\ Len(yielded') = Len(yielded) + 1

\* the Transcription t shows the effect of event e: the chunk of a text
\* event is among its chunks, the status is no longer pending after a status
\* event, and failed after an error unless a later transcript event has set
\* completed (events carry their position in the order of the callbacks)
ReflectsEvent(t, e) ==
    LET chunk == \E i \in 1..Len(t.transcript_chunks) :
                    /\ t.transcript_chunks[i].text = e.text
                    /\ t.transcript_chunks[i].event_type = "transcribed"
        later_transcript == \E i \in 1..Len(called) :
                               /\ called[i].event_type = "transcript"
                               /\ called[i].text > e.text
    IN  CASE e.event_type = "transcribed" -> chunk
          [] e.event_type = "transcript" -> chunk /\ t.status # "pending"
          [] e.event_type \in StreamEnd -> t.status \in {"completed", "failed"}
          [] e.event_type = "error" ->
                t.status = "failed" \/ (t.status = "completed" /\ later_transcript)
          [] OTHER -> TRUE

\* C37: when the generator of /submit dequeues an event, the Transcription
\* of the request already shows that event: the callback updates the record
\* before it enqueues.
C37_UpdatedBeforeDequeue ==
    [][Dequeue /\ transcription_record # 0
          => ReflectsEvent(heap[transcription_record], Head(q))]_vars

\* a transcribed and an error event dequeued, the record showing both
C37_Witness ==
    /\ transcription_record # 0
    /\ Len(yielded) = 2 /\ q = <<>>
    /\ EventOfFrame(yielded[1]).event_type = "transcribed"
    /\ EventOfFrame(yielded[2]).event_type = "error"
    /\ ChunkTexts(heap[transcription_record]) = <<EventOfFrame(yielded[1]).text>>
    /\ heap[transcription_record].status = "failed"

(***************************************************************************)
(* Properties of what the pushes of a live session report.                 *)
(***************************************************************************)
\* the ids of the results a returned call has reported
ReportedBy(p) ==
    IF task[p].pc = "returned" /\ task[p].result.success
    THEN {task[p].result.results[i].id : i \in 1..Len(task[p].result.results)}
    ELSE {}

\* the ids of the results in the buffers of the sessions
Buffered ==
    UNION {{sessions[s].results[i].id : i \in 1..Len(sessions[s].results)} :
              s \in 1..Len(sessions)}

\* no result is reported by two calls
C38_NoneTwice ==
    \A p1, p2 \in PushTasks : p1 # p2 => ReportedBy(p1) \cap ReportedBy(p2) = {}

\* no result has left the buffer without having been reported
C38_NoneLost ==
    \A id \in 1..delivered :
        id \notin Buffered => \E p \in PushTasks : id \in ReportedBy(p)

\* C38: across the calls of process_audio_chunk_direct on one live session
\* every result the recognizer appended is reported by exactly one call:
\* none is reported twice, none is pruned without having been reported.
C38_ReportedExactlyOnce == C38_NoneTwice /\ C38_NoneLost

\* what the windows do guarantee: a result a call reports is in the buffer
\* when the call returns
C38_ReportedIsKept ==
    [][\A p \in PushTasks :
          PushAssign(p) =>
              \A i \in 1..Len(task'[p].result.results) :
                  \E j \in 1..Len(sessions'[task[p].session].results) :
                      sessions'[task[p].session].results[j].id
                          = task'[p].result.results[i].id]_vars

(***************************************************************************)
(* Properties of what the store returns while the callback runs.           *)
(***************************************************************************)
\* callback has processed an event of a request that has a record
CallbackRan == called' # called /\ transcription_record # 0

\* get_history_by_id of the request's History returns after the step what
\* it returned before
SameStoredHistory ==
    get_history_by_id(use_azure_tables, World', history_record)
        = get_history_by_id(use_azure_tables, World, history_record)

\* C39: in memory mode the stored Transcription changes only by a store
\* operation: an event processed by the callback of /submit leaves what
\* get_history_by_id returns as it was added.
C39_CallbackLeavesStore ==
    [][CallbackRan /\ ~use_azure_tables => SameStoredHistory]_vars

\* the same in table mode, where the rows are copies of the object
C39_TableMode ==
    [][CallbackRan /\ use_azure_tables => SameStoredHistory]_vars

(***************************************************************************)
(* Properties of a /ws/transcribe connection.                              *)
(***************************************************************************)
\* the connection has ended and its handler was created
ClosedWithHandler == conn.pc = "closed" /\ handler.kind # None

\* process_audio_chunk is called on a handler whose session was stopped
ChunkAfterStop == conn.pc = "closed" /\ conn'.late = conn.late + 1

\* C40: a /ws/transcribe connection whose handler was created ends with
\* is_active false, whether the loop was left by a stop message, by a
\* disconnect or by an error; a process_audio_chunk after stop_session
\* appends no result and leaves chunk_count as it is.
C40_EndsStopped ==
    /\ [](ClosedWithHandler => ~handler.is_active)
    /\ [][ChunkAfterStop => handler' = handler /\ appended' = appended]_vars

\* a connection that received chunks and was left by an error, and a chunk
\* passed to its handler afterwards
C40_Witness ==
    /\ ClosedWithHandler
    /\ conn.reason = "error"
    /\ conn.messages >= MockEvery
    /\ handler.chunk_count = conn.messages
    /\ conn.late = 1
====
